---- MODULE Spec2Model ----
(***************************************************************************)
(* A model of the experience-layer knowledge lifecycle: the episodes,      *)
(* patterns and lessons tables of DatabaseManager (src/database/schema.ts) *)
(* and the six tools and the verifier signal handlers that act on them.    *)
(*                                                                         *)
(* Numbers.  Scores, confidences and weights are JavaScript doubles in the *)
(* code; here they are fixed-point integers with Scale units to 1.0, so    *)
(* 0.3 is 3000.  Products are floored after each multiplication.  Time is  *)
(* counted in whole days (the code counts milliseconds and divides by      *)
(* 24*60*60*1000).  Math.exp is computed by its Taylor series in Horner    *)
(* form, Math.log is tabulated for the small integers it is applied to.    *)
(*                                                                         *)
(* Text.  A string is a sequence of tokens; s includes t when t is a       *)
(* contiguous sub-sequence of s.  All tokens are lower case, so            *)
(* toLowerCase and the case folding of SQL LIKE leave them as they are.    *)
(***************************************************************************)
EXTENDS Integers, Sequences, FiniteSets, TLC

VARIABLES
  episodes,   \* the episodes table
  patterns,   \* the patterns table
  lessons,    \* the lessons table
  now,        \* Date.now(), in days
  ret,        \* the last operation, its input and what it returned
  signals,    \* how many verifier signals have been handled
  inflight    \* requests received by a front end and not yet answered

vars == <<episodes, patterns, lessons, now, ret, signals, inflight>>

-----------------------------------------------------------------------------
(* Bounds of the model *)

(* Spec: every operation, on a small store *)
MaxEpisodes == 3
MaxLessons == 1
MaxApplied == 1
MaxSignals == 1
MaxTicks == 1
TickDays == 40
MaxLimit == 1
(* SpecDetect: pattern detection over two operation types *)
MaxDetectEpisodes == 6
(* SpecLessons: the lessons table and its queries *)
MaxStoredLessons == 3
(* SpecDecline: one lesson applied again and again *)
MaxDeclineApplied == 7

(* SpecCleanup: the retention sweep as the store ages *)
MaxCleanupTicks == 2

(* SpecJson: episodes with nested structures *)
MaxJsonEpisodes == 1

(* SpecScores: the scores of recorded episodes *)
MaxScoredEpisodes == 2

(* SpecDecay: the days over which a lesson's decay is followed *)
MaxDecayDays == 60

(* requests received together by the front ends *)
MaxRequests == 4

(* SpecUsage: episodes recorded, lessons learned from one pattern and       *)
(* applications of each lesson                                              *)
MaxUsageEpisodes == 4
MaxUsageLessons == 2
MaxUsageApplied == 2

(* SpecLearn: episodes recorded and lessons learned from them *)
MaxLearnEpisodes == 4
MaxLearnLessons == 2

-----------------------------------------------------------------------------
(* Fixed point arithmetic *)

Scale == 10 * 1000

(* undefined / null: as a string, as a number and as a text *)
NoValue == "undefined"
NoInt == 0 - 1
NoText == <<>>

Min(a, b) == IF a < b THEN a ELSE b
Max(a, b) == IF a > b THEN a ELSE b

Mul(a, b) == (a * b) \div Scale

RECURSIVE SumSeq(_)
SumSeq(s) == IF s = <<>> THEN 0 ELSE Head(s) + SumSeq(Tail(s))

(* The elements of s that satisfy Test, in order (Array.prototype.filter). *)
Filter(s, Test(_)) == SelectSeq(s, Test)

Map(s, F(_)) == [i \in 1..Len(s) |-> F(s[i])]

Range(s) == {s[i] : i \in 1..Len(s)}

Take(s, n) == SubSeq(s, 1, Min(n, Len(s)))

(* Math.log(n) for the integers 1..20, in Scale units. *)
LnTable ==
  << 0, 6931, 10986, 13863, 16094, 17918, 19459, 20794, 21972, 23026,
     23979, 24849, 25649, 26391, 27081, 27726, 28332, 28904, 29444, 29957 >>

Ln(n) == LnTable[n]

RECURSIVE ExpHorner(_, _)
ExpHorner(x, n) ==
  IF n > 14 THEN Scale
  ELSE Scale - (x * ExpHorner(x, n + 1)) \div (n * Scale)

(* Math.exp(-x) for x >= 0 in Scale units. *)
ExpNeg(x) == ExpHorner(x, 1)

-----------------------------------------------------------------------------
(* Text *)

Includes(s, t) ==
  \E i \in 0..(Len(s) - Len(t)) : SubSeq(s, i + 1, i + Len(t)) = t

-----------------------------------------------------------------------------
(* Configuration constants (types.ts) *)

minEpisodes == 3
recencyWindowDays == 30
(* decayConstant 0.01 per day, in Scale units *)
decayConstant == Scale \div 100
(* minDiscriminationWeight left at nothing *)
minDiscriminationWeightUnset == 0 * Scale
(* minDiscriminationWeight 0.3 *)
minDiscriminationWeight == (3 * Scale) \div 10
(* CONFIDENCE_THRESHOLDS *)
thresholdHigh == (7 * Scale) \div 10
thresholdMedium == (4 * Scale) \div 10
thresholdDeprecation == Scale \div 10

Outcomes == {"success", "failure", "partial"}

(* Operation types: "build" and "rebuild"; the second contains the first. *)
OperationTypes == {<<"build">>, <<"re", "build">>}

-----------------------------------------------------------------------------
(* The tables.  Each is the sequence of its rows in rowid order; ids are   *)
(* AUTOINCREMENT, so a new row gets an id above every id ever used.        *)

RECURSIVE MaxId(_)
MaxId(rows) == IF rows = <<>> THEN 0 ELSE Max(Head(rows).id, MaxId(Tail(rows)))

(* Rows in descending order of Key, rows of equal key in rowid order: the  *)
(* order SQLite gives for ORDER BY <key> DESC over a rowid-ordered scan.   *)
RECURSIVE InsertDesc(_, _, _)
InsertDesc(sorted, i, keys) ==
  IF sorted = <<>> THEN <<i>>
  ELSE IF keys[Head(sorted)] >= keys[i]
       THEN <<Head(sorted)>> \o InsertDesc(Tail(sorted), i, keys)
       ELSE <<i>> \o sorted

RECURSIVE SortDescFrom(_, _, _)
SortDescFrom(i, keys, acc) ==
  IF i > Len(keys) THEN acc
  ELSE SortDescFrom(i + 1, keys, InsertDesc(acc, i, keys))

OrderByDesc(rows, Key(_)) ==
  LET keys == [i \in 1..Len(rows) |-> Key(rows[i])]
      perm == SortDescFrom(1, keys, <<>>)
  IN  [i \in 1..Len(rows) |-> rows[perm[i]]]

TimestampOf(e) == e.timestamp

(* INSERT OR REPLACE keyed on the operation type *)
insertEpisodeReplacing(eps, episode) ==
  IF \E i \in 1..Len(eps) : eps[i].operation_type = episode.operation_type
  THEN [i \in 1..Len(eps) |->
          IF eps[i].operation_type = episode.operation_type
          THEN [episode EXCEPT !.id = eps[i].id] ELSE eps[i]]
  ELSE Append(eps, [episode EXCEPT !.id = MaxId(eps) + 1])

insertEpisode(eps, episode) ==
  Append(eps, [episode EXCEPT !.id = MaxId(eps) + 1])

getEpisode(eps, id) == Filter(eps, LAMBDA e : e.id = id)

(* since = NoInt when the caller passes undefined *)
getEpisodesByType(eps, operationType, since, limit) ==
  Take(OrderByDesc(
         Filter(eps, LAMBDA e : /\ e.operation_type = operationType
                                /\ (since # NoInt => e.timestamp >= since)),
         TimestampOf),
       limit)

getEpisodesByOutcome(eps, outcome, operationType, limit) ==
  Take(OrderByDesc(
         Filter(eps, LAMBDA e : /\ e.outcome = outcome
                                /\ (operationType # NoText =>
                                      e.operation_type = operationType)),
         TimestampOf),
       limit)

(* WHERE id IN (...): each stored row at most once, in rowid order *)
getEpisodesByIds(eps, ids) == Filter(eps, LAMBDA e : e.id \in Range(ids))

insertPattern(pats, pattern) ==
  Append(pats, [pattern EXCEPT !.id = MaxId(pats) + 1])

getPattern(pats, id) == Filter(pats, LAMBDA p : p.id = id)

(* WHERE description LIKE %searchText% LIMIT 1: the first match in rowid   *)
(* order, as a sequence of length 0 or 1                                   *)
findPatternByDescription(pats, searchText) ==
  Take(Filter(pats, LAMBDA p : Includes(p.description, searchText)), 1)

DiscriminationOf(p) == p.discrimination_weight

getAllPatterns(pats) == OrderByDesc(pats, DiscriminationOf)

(* updates is a record holding only the fields that are set *)
UpdateRow(row, updates) ==
  [f \in DOMAIN row |-> IF f \in DOMAIN updates THEN updates[f] ELSE row[f]]

updatePattern(pats, id, updates) ==
  [i \in 1..Len(pats) |->
     IF pats[i].id = id THEN UpdateRow(pats[i], updates) ELSE pats[i]]

insertLesson(les, lesson) ==
  Append(les, [lesson EXCEPT !.id = MaxId(les) + 1])

(* SELECT * FROM lessons without the WHERE clause *)
getLessonAny(les, id) == Take(les, 1)

getLesson(les, id) == Filter(les, LAMBDA l : l.id = id)

updateLesson(les, id, updates) ==
  [i \in 1..Len(les) |->
     IF les[i].id = id THEN UpdateRow(les[i], updates) ELSE les[i]]

deprecateLesson(les, id, t) ==
  [i \in 1..Len(les) |->
     IF les[i].id = id THEN [les[i] EXCEPT !.deprecated_at = t] ELSE les[i]]

(* CF(t) = CF0 * e^(-k t), t in days since lastValidated *)
(* the decay with the elapsed milliseconds taken for days: the factor     *)
(* underflows to 0 as soon as any time has passed                          *)
calculateCurrentConfidencePerMillisecond(initialConfidence, k, lastValidated, t) ==
  IF t = lastValidated \/ k = 0 THEN initialConfidence ELSE 0

calculateCurrentConfidence(initialConfidence, k, lastValidated, t) ==
  Mul(initialConfidence, ExpNeg(k * (t - lastValidated)))

(* the utility with novelty weighted 0.5 instead of 0.3 *)
calculateUtilityScoreOverweight(novelty, effectiveness, generalizability) ==
  (5 * novelty + 5 * effectiveness + 2 * generalizability) \div 10

calculateUtilityScore(novelty, effectiveness, generalizability) ==
  (3 * novelty + 5 * effectiveness + 2 * generalizability) \div 10

InitialConfidenceOf(l) == l.initial_confidence

WithCurrentConfidence(l, t) ==
  [id |-> l.id,
   initial_confidence |-> l.initial_confidence,
   current_confidence |->
     calculateCurrentConfidence(l.initial_confidence, l.decay_constant,
                                l.last_validated, t)]

(* getActiveLessons without its ORDER BY: rows in rowid order *)
getActiveLessonsUnordered(les, minConfidence, t) ==
  Filter(
    Map(Filter(les, LAMBDA l : l.deprecated_at = NoInt),
        LAMBDA l : WithCurrentConfidence(l, t)),
    LAMBDA l : l.current_confidence >= minConfidence)

(* getActiveLessons filtering on the stored confidence *)
getActiveLessonsByStored(les, minConfidence, t) ==
  Filter(
    Map(OrderByDesc(Filter(les, LAMBDA l : l.deprecated_at = NoInt),
                    InitialConfidenceOf),
        LAMBDA l : WithCurrentConfidence(l, t)),
    LAMBDA l : l.initial_confidence >= minConfidence)

(* The rows getActiveLessons returns, each reduced to its id, its stored   *)
(* and its decayed confidence.                                             *)
getActiveLessons(les, minConfidence, t) ==
  Filter(
    Map(OrderByDesc(Filter(les, LAMBDA l : l.deprecated_at = NoInt),
                    InitialConfidenceOf),
        LAMBDA l : WithCurrentConfidence(l, t)),
    LAMBDA l : l.current_confidence >= minConfidence)

(* a getActiveLessons that stores the decayed confidence it has computed    *)
(* as the confidence validated now                                          *)
lessonsAfterGetActiveLessonsWritingBack(les, t) ==
  [i \in 1..Len(les) |->
     IF les[i].deprecated_at = NoInt
     THEN [les[i] EXCEPT
             !.initial_confidence =
               calculateCurrentConfidence(les[i].initial_confidence,
                                          les[i].decay_constant,
                                          les[i].last_validated, t),
             !.last_validated = t]
     ELSE les[i]]

(* the lessons table after getActiveLessons: its one statement is a SELECT  *)
(* and current_confidence is set on the returned copies                     *)
lessonsAfterGetActiveLessons(les, t) == les

(* getStats *)
getStats(eps, pats, les, t) ==
  LET activeLessons == getActiveLessons(les, 0, t)
      highConfidence ==
        Filter(activeLessons, LAMBDA l : l.current_confidence >= thresholdHigh)
  IN  [op |-> "getStats",
       at |-> t,
       episodes |-> Len(eps),
       patterns |-> Len(pats),
       lessons |-> Len(Filter(les, LAMBDA l : l.deprecated_at = NoInt)),
       avgUtility |->
         IF eps = <<>> THEN 0
         ELSE SumSeq(Map(eps, LAMBDA e : e.utility_score)) \div Len(eps),
       highConfidenceLessons |-> Len(highConfidence)]

-----------------------------------------------------------------------------
(* record_experience (tools/record-experience.ts) *)

calculateNoveltyScore(eps, operationType, query) ==
  LET recentEpisodes == getEpisodesByType(eps, operationType, NoInt, 50)
      similarCount == Len(Filter(recentEpisodes, LAMBDA e : e.query = query))
  IN  IF Len(recentEpisodes) = 0 THEN Scale
      ELSE Max(Scale \div 10,
               Scale - (similarCount * Scale) \div Len(recentEpisodes))

BaseScore(outcome) ==
  IF outcome = "success" THEN Scale
  ELSE IF outcome = "partial" THEN Scale \div 2 ELSE 0

calculateEffectivenessScore(outcome, qualityScore) ==
  IF qualityScore # NoInt
  THEN (6 * BaseScore(outcome) + 4 * qualityScore) \div 10
  ELSE BaseScore(outcome)

calculateGeneralizabilityScore(eps, operationType, depCount, triggerCount) ==
  LET depPenalty == Min((3 * Scale) \div 10, depCount * (Scale \div 10))
      triggerBonus == Min((2 * Scale) \div 10, triggerCount * (Scale \div 20))
      typeCount == Len(getEpisodesByType(eps, operationType, NoInt, 1000))
      typeBonus == Min((3 * Scale) \div 10, Ln(typeCount + 1) \div 10)
  IN  Max(Scale \div 10,
          Min(Scale, Scale \div 2 - depPenalty + triggerBonus + typeBonus))

(* Math.round(successRate * 100) for successRate = k / n *)
RoundPercent(k, n) == (200 * k + n) \div (2 * n)

PatternTypeOf(successCount, n) ==
  IF 10 * successCount > 6 * n THEN "success"
  ELSE IF 10 * successCount < 4 * n THEN "failure" ELSE "correlation"

DetectDescription(operationType, successCount, n) ==
  operationType \o <<": ", ToString(RoundPercent(successCount, n)),
                     "% success rate over ", ToString(n), " episodes">>

(* the weight with every outcome other than failure counted as a success *)
DetectWeightCountingPartial(similar, t) ==
  LET n == Len(similar)
      successCount == Len(Filter(similar, LAMBDA e : e.outcome # "failure"))
      successRate == (successCount * Scale) \div n
      frequencyWeight == Ln(n + 1)
      ageSum == SumSeq([i \in 1..n |-> t - similar[i].timestamp])
      recencyBonus == ExpNeg((decayConstant * ageSum) \div n)
  IN  Mul(Mul(successRate, frequencyWeight), recencyBonus)

(* The discrimination weight detectPatterns computes over `similar` at t *)
DetectWeight(similar, t) ==
  LET n == Len(similar)
      successCount == Len(Filter(similar, LAMBDA e : e.outcome = "success"))
      successRate == (successCount * Scale) \div n
      frequencyWeight == Ln(n + 1)
      ageSum == SumSeq([i \in 1..n |-> t - similar[i].timestamp])
      recencyBonus == ExpNeg((decayConstant * ageSum) \div n)
  IN  Mul(Mul(successRate, frequencyWeight), recencyBonus)

(* detectPatterns, its two reads of the store: the similar episodes of the *)
(* recency window and the pattern already stored for the operation type    *)
detectPatternsRead(eps, pats, episode, t) ==
  [similar |-> getEpisodesByType(eps, episode.operation_type,
                                 t - recencyWindowDays, 500),
   existing |-> findPatternByDescription(pats, episode.operation_type)]

(* detectPatterns, its thresholds and its write, from what it has read: the *)
(* patterns table afterwards and the patterns returned                      *)
detectPatternsWrite(pats, episode, similar, existing, t) ==
  LET n == Len(similar)
      successCount == Len(Filter(similar, LAMBDA e : e.outcome = "success"))
      discriminationWeight == DetectWeight(similar, t)
      ids == Map(similar, LAMBDA e : e.id)
  IN  IF n < minEpisodes THEN [patterns |-> pats, found |-> <<>>]
      ELSE IF discriminationWeight < minDiscriminationWeight
      THEN [patterns |-> pats, found |-> <<>>]
      ELSE IF existing # <<>>
      THEN LET after ==
                 updatePattern(pats, existing[1].id,
                   [frequency |-> n,
                    discrimination_weight |-> discriminationWeight,
                    initial_confidence |->
                      (existing[1].initial_confidence + discriminationWeight) \div 2,
                    last_seen |-> t,
                    last_validated |-> t,
                    episode_ids |-> ids])
           IN  [patterns |-> after, found |-> getPattern(after, existing[1].id)]
      ELSE LET after ==
                 insertPattern(pats,
                   [id |-> 0,
                    pattern_type |-> PatternTypeOf(successCount, n),
                    description |->
                      DetectDescription(episode.operation_type, successCount, n),
                    episode_ids |-> ids,
                    frequency |-> n,
                    last_seen |-> t,
                    created_at |-> t,
                    initial_confidence |->
                      Min((8 * Scale) \div 10,
                          (4 * Scale) \div 10 + discriminationWeight),
                    decay_constant |-> decayConstant,
                    last_validated |-> t,
                    times_applied |-> 0,
                    times_succeeded |-> 0,
                    discrimination_weight |-> discriminationWeight])
           IN  [patterns |-> after, found |-> getPattern(after, MaxId(after))]

(* detectPatterns: the patterns table afterwards and the patterns returned *)
detectPatterns(eps, pats, episode, t) ==
  LET read == detectPatternsRead(eps, pats, episode, t)
  IN  detectPatternsWrite(pats, episode, read.similar, read.existing, t)

(* The episode recordExperience builds from its input at time t *)
NewEpisode(eps, input, t) ==
  LET noveltyScore == calculateNoveltyScore(eps, input.operation_type, input.query)
      effectivenessScore ==
        calculateEffectivenessScore(input.outcome, input.quality_score)
      generalizabilityScore ==
        calculateGeneralizabilityScore(eps, input.operation_type,
                                       input.dependencies, input.triggers)
  IN  [id |-> 0,
       timestamp |-> t,
       operation_type |-> input.operation_type,
       server_name |-> input.server_name,
       query |-> input.query,
       environment |-> input.environment,
       dependencies |-> input.dependencies,
       triggers |-> input.triggers,
       outcome |-> input.outcome,
       quality_score |-> input.quality_score,
       novelty_score |-> noveltyScore,
       effectiveness_score |-> effectivenessScore,
       generalizability_score |-> generalizabilityScore,
       utility_score |->
         calculateUtilityScore(noveltyScore, effectivenessScore,
                               generalizabilityScore)]

(* recordExperience: the tables afterwards and the result returned *)
recordExperience(eps, pats, input, t) ==
  LET after == insertEpisode(eps, NewEpisode(eps, input, t))
      episodeId == MaxId(after)
      savedEpisode == getEpisode(after, episodeId)
      detected == IF savedEpisode # <<>>
                  THEN detectPatterns(after, pats, savedEpisode[1], t)
                  ELSE [patterns |-> pats, found |-> <<>>]
  IN  [episodes |-> after,
       patterns |-> detected.patterns,
       result |-> [op |-> "recordExperience",
                   operation_type |-> input.operation_type,
                   outcome |-> input.outcome,
                   episode_id |-> episodeId,
                   recorded |-> TRUE,
                   utility_score |-> savedEpisode[1].utility_score,
                   patterns_triggered |->
                     Map(detected.found, LAMBDA p : p.description)]]

-----------------------------------------------------------------------------
(* learn_from_pattern (tools/learn-from-pattern.ts) *)

RECURSIVE Dedup(_)
(* [...new Set(xs)]: first occurrences, in order *)
Dedup(xs) ==
  IF xs = <<>> THEN <<>>
  ELSE LET rest == Dedup(SubSeq(xs, 1, Len(xs) - 1))
           last == xs[Len(xs)]
       IN  IF last \in Range(rest) THEN rest ELSE Append(rest, last)

RECURSIVE EpisodeContexts(_)
EpisodeContexts(es) ==
  IF es = <<>> THEN <<>>
  ELSE (IF Head(es).server_name # NoValue
        THEN <<(<<"server:", Head(es).server_name>>)>> ELSE <<>>)
       \o (IF Head(es).environment # NoValue
           THEN <<(<<"env:", Head(es).environment>>)>> ELSE <<>>)
       \o EpisodeContexts(Tail(es))

LessonContexts(es) ==
  LET operationTypes == Dedup(Map(es, LAMBDA e : e.operation_type))
  IN  Dedup(EpisodeContexts(es)
            \o Map(operationTypes, LAMBDA ty : <<"operation:">> \o ty))

(* the learned confidence without its limits *)
LearnConfidenceUnclamped(es) ==
  LET n == Len(es)
      successCount == Len(Filter(es, LAMBDA e : e.outcome = "success"))
      successRate == (successCount * Scale) \div n
      episodeCountBonus == Min((3 * Scale) \div 10, Ln(n + 1) \div 10)
      avgUtility == SumSeq(Map(es, LAMBDA e : e.utility_score)) \div n
      utilityBonus == (avgUtility * 2) \div 10
  IN  (4 * Scale) \div 10 + (successRate * 3) \div 10
        + episodeCountBonus + utilityBonus

(* initialConfidence of learnFromPattern: between 0.3 and 0.9 *)
LearnConfidence(es) ==
  LET n == Len(es)
      successCount == Len(Filter(es, LAMBDA e : e.outcome = "success"))
      successRate == (successCount * Scale) \div n
      episodeCountBonus == Min((3 * Scale) \div 10, Ln(n + 1) \div 10)
      avgUtility == SumSeq(Map(es, LAMBDA e : e.utility_score)) \div n
      utilityBonus == (avgUtility * 2) \div 10
  IN  Min((9 * Scale) \div 10,
          Max((3 * Scale) \div 10,
              (4 * Scale) \div 10 + (successRate * 3) \div 10
                + episodeCountBonus + utilityBonus))

(* the evidence check off by one *)
InsufficientEvidenceOffByOne(es) == Len(es) < minEpisodes - 1

(* episodes.length < PATTERN_CONFIG.minEpisodes *)
InsufficientEvidence(es) == Len(es) < minEpisodes

(* learnFromPattern: the tables afterwards and the result, or the error *)
learnFromPattern(eps, pats, les, input, t) ==
  LET es == getEpisodesByIds(eps, input.episode_ids)
      n == Len(es)
      successCount == Len(Filter(es, LAMBDA e : e.outcome = "success"))
      initialConfidence == LearnConfidence(es)
      existingPattern == findPatternByDescription(pats, input.pattern_description)
      patsAfter ==
        IF existingPattern # <<>>
        THEN updatePattern(pats, existingPattern[1].id,
               [frequency |-> n,
                last_seen |-> t,
                last_validated |-> t,
                episode_ids |-> input.episode_ids])
        ELSE insertPattern(pats,
               [id |-> 0,
                pattern_type |-> PatternTypeOf(successCount, n),
                description |-> input.pattern_description,
                episode_ids |-> input.episode_ids,
                frequency |-> n,
                last_seen |-> t,
                created_at |-> t,
                initial_confidence |-> initialConfidence,
                decay_constant |-> decayConstant,
                last_validated |-> t,
                times_applied |-> 0,
                times_succeeded |-> 0,
                discrimination_weight |->
                  Mul((successCount * Scale) \div n, Ln(n + 1))])
      patternId == IF existingPattern # <<>> THEN existingPattern[1].id
                   ELSE MaxId(patsAfter)
      lesAfter ==
        insertLesson(les,
          [id |-> 0,
           statement |-> input.lesson_statement,
           pattern_id |-> patternId,
           contexts |-> LessonContexts(es),
           initial_confidence |-> initialConfidence,
           decay_constant |-> decayConstant,
           last_validated |-> t,
           times_applied |-> 0,
           times_succeeded |-> 0,
           created_at |-> t,
           deprecated_at |-> NoInt])
  IN  IF InsufficientEvidence(es)
      THEN [patterns |-> pats, lessons |-> les,
            result |-> [op |-> "learnFromPattern",
                        episode_ids |-> input.episode_ids,
                        pattern_description |-> input.pattern_description,
                        error |-> "InsufficientEvidence"]]
      ELSE [patterns |-> patsAfter, lessons |-> lesAfter,
            result |-> [op |-> "learnFromPattern",
                        episode_ids |-> input.episode_ids,
                        pattern_description |-> input.pattern_description,
                        error |-> NoValue,
                        lesson_id |-> MaxId(lesAfter),
                        created |-> TRUE,
                        initial_confidence |-> initialConfidence,
                        pattern_id |-> patternId]]

-----------------------------------------------------------------------------
(* apply_lesson (tools/apply-lesson.ts) *)

(* priorWeight = max(0.3, 1 - ln(newTimesApplied + 1) / 5) *)
(* the prior given all the weight *)
PriorWeightWhole(newTimesApplied) ==
  Max(Scale, Scale - Ln(newTimesApplied + 1) \div 5)

PriorWeight(newTimesApplied) ==
  Max((3 * Scale) \div 10, Scale - Ln(newTimesApplied + 1) \div 5)

(* a success counted twice *)
SucceededHalvesCountingTwice(outcome) ==
  IF outcome = "success" THEN 4 ELSE IF outcome = "partial" THEN 1 ELSE 0

(* twice the amount an outcome adds to times_succeeded: 1, 0.5 or 0 *)
SucceededHalves(outcome) ==
  IF outcome = "success" THEN 2 ELSE IF outcome = "partial" THEN 1 ELSE 0

(* the blend with the prior confidence taken whole instead of weighted *)
NewInitialConfidenceUnweightedPrior(previousConfidence, newTimesApplied, halves, outcome) ==
  LET successRate == (halves * Scale) \div (2 * newTimesApplied)
      evidenceWeight == Scale - PriorWeight(newTimesApplied)
      evidenceConfidence == BaseScore(outcome)
  IN  Max(Scale \div 10,
          Min((95 * Scale) \div 100,
              previousConfidence
                + Mul(evidenceWeight,
                      (7 * successRate + 3 * evidenceConfidence) \div 10)))

(* newInitialConfidence, from the decayed confidence and the new counts;   *)
(* halves is twice newTimesSucceeded                                       *)
NewInitialConfidence(previousConfidence, newTimesApplied, halves, outcome) ==
  LET successRate == (halves * Scale) \div (2 * newTimesApplied)
      priorWeight == PriorWeight(newTimesApplied)
      evidenceWeight == Scale - priorWeight
      evidenceConfidence == BaseScore(outcome)
  IN  Max(Scale \div 10,
          Min((95 * Scale) \div 100,
              Mul(priorWeight, previousConfidence)
                + Mul(evidenceWeight,
                      (7 * successRate + 3 * evidenceConfidence) \div 10)))

(* a partial outcome counted as a success of the pattern *)
PatternSucceededCountingPartial(outcome) ==
  IF outcome \in {"success", "partial"} THEN 1 ELSE 0

(* what an application adds to its pattern's times_succeeded *)
PatternSucceeded(outcome) == IF outcome = "success" THEN 1 ELSE 0

(* applyLesson: the tables afterwards and the result, or the error *)
applyLesson(pats, les, input, t) ==
  LET found == getLesson(les, input.lesson_id)
      lesson == found[1]
      previousConfidence ==
        calculateCurrentConfidence(lesson.initial_confidence,
                                   lesson.decay_constant, lesson.last_validated, t)
      succeeded == input.outcome = "success"
      newTimesApplied == lesson.times_applied + 1
      halves == 2 * lesson.times_succeeded + SucceededHalves(input.outcome)
      successRate == (halves * Scale) \div (2 * newTimesApplied)
      newInitialConfidence ==
        NewInitialConfidence(previousConfidence, newTimesApplied, halves,
                             input.outcome)
      updated ==
        updateLesson(les, input.lesson_id,
          [initial_confidence |-> newInitialConfidence,
           last_validated |-> t,
           times_applied |-> newTimesApplied,
           times_succeeded |-> (halves + 1) \div 2])
      lesAfter ==
        IF newInitialConfidence < thresholdDeprecation /\ newTimesApplied >= 5
        THEN deprecateLesson(updated, input.lesson_id, t)
        ELSE updated
      pattern == IF lesson.pattern_id # NoInt /\ lesson.pattern_id # 0
                 THEN getPattern(pats, lesson.pattern_id) ELSE <<>>
      patsAfter ==
        IF pattern # <<>>
        THEN updatePattern(pats, lesson.pattern_id,
               [times_applied |-> pattern[1].times_applied + 1,
                times_succeeded |->
                  pattern[1].times_succeeded + PatternSucceeded(input.outcome),
                last_validated |-> t])
        ELSE pats
  IN  IF found = <<>>
      THEN [patterns |-> pats, lessons |-> les,
            result |-> [op |-> "applyLesson",
                        lesson_id |-> input.lesson_id,
                        outcome |-> input.outcome,
                        error |-> "NotFound"]]
      ELSE [patterns |-> patsAfter, lessons |-> lesAfter,
            result |-> [op |-> "applyLesson",
                        lesson_id |-> input.lesson_id,
                        outcome |-> input.outcome,
                        error |-> NoValue,
                        applied |-> TRUE,
                        previous_confidence |-> previousConfidence,
                        new_confidence |-> newInitialConfidence,
                        total_applications |-> newTimesApplied,
                        success_rate |-> successRate]]

-----------------------------------------------------------------------------
(* get_lessons (tools/get-lessons.ts) *)

(* the operation_type filter of getLessons, for one lesson *)
MentionsOperation(les, pats, id, operationType) ==
  LET lesson == getLesson(les, id)[1]
      pattern == IF lesson.pattern_id # NoInt /\ lesson.pattern_id # 0
                 THEN getPattern(pats, lesson.pattern_id) ELSE <<>>
  IN  \/ Includes(lesson.statement, operationType)
      \/ \E i \in 1..Len(lesson.contexts) :
            Includes(lesson.contexts[i], operationType)
      \/ pattern # <<>> /\ Includes(pattern[1].description, operationType)

(* the context filter of getLessons, for one lesson; context is a set of   *)
(* [key, value] entries                                                    *)
MatchesContext(les, id, context) ==
  LET lesson == getLesson(les, id)[1]
  IN  \E i \in 1..Len(lesson.contexts) : \E kv \in context :
         \/ Includes(lesson.contexts[i], kv.key)
         \/ Includes(kv.value, lesson.contexts[i])

CurrentConfidenceOf(l) == l.current_confidence

(* getLessons: input.operation_type = NoText and input.context.given =     *)
(* FALSE when the caller leaves them out                                   *)
getLessons(les, pats, input, t) ==
  LET minConfidence == IF input.min_confidence = NoInt THEN 0
                       ELSE input.min_confidence
      active == getActiveLessons(les, minConfidence, t)
      byType == IF input.operation_type # NoText
                THEN Filter(active, LAMBDA l :
                       MentionsOperation(les, pats, l.id, input.operation_type))
                ELSE active
      byContext == IF input.context.given
                   THEN Filter(byType, LAMBDA l :
                          MatchesContext(les, l.id, input.context.entries))
                   ELSE byType
      sorted == OrderByDesc(byContext, CurrentConfidenceOf)
  IN  [op |-> "getLessons",
       lessons |-> sorted,
       confidence_summary |->
         [high |-> Len(Filter(sorted, LAMBDA l :
                     l.current_confidence >= thresholdHigh)),
          medium |-> Len(Filter(sorted, LAMBDA l :
                       /\ l.current_confidence >= thresholdMedium
                       /\ l.current_confidence < thresholdHigh)),
          low |-> Len(Filter(sorted, LAMBDA l :
                    l.current_confidence < thresholdMedium))]]

-----------------------------------------------------------------------------
(* recall_by_type, recall_by_outcome *)

AvgUtility(es) ==
  IF Len(es) > 0 THEN SumSeq(Map(es, LAMBDA e : e.utility_score)) \div Len(es)
  ELSE 0

recallByType(eps, pats, input) ==
  LET limit == IF input.limit = NoInt THEN 50 ELSE input.limit
      fetched == getEpisodesByType(eps, input.operation_type, NoInt, limit * 2)
      filtered == IF input.outcome_filter # NoValue
                  THEN Filter(fetched, LAMBDA e : e.outcome = input.outcome_filter)
                  ELSE fetched
      page == Take(filtered, limit)
      relatedPatterns ==
        Filter(getAllPatterns(pats),
               LAMBDA p : Includes(p.description, input.operation_type))
  IN  [op |-> "recallByType",
       operation_type |-> input.operation_type,
       outcome_filter |-> input.outcome_filter,
       limit |-> limit,
       episodes |-> Map(page, LAMBDA e : e.id),
       count |-> Len(page),
       patterns_detected |-> Map(relatedPatterns, LAMBDA p : p.id),
       avg_utility |-> AvgUtility(page)]

OutcomePatternType(outcome) ==
  IF outcome = "success" THEN "success"
  ELSE IF outcome = "failure" THEN "failure" ELSE "correlation"

recallByOutcome(eps, pats, input) ==
  LET limit == IF input.limit = NoInt THEN 50 ELSE input.limit
      page == getEpisodesByOutcome(eps, input.outcome, input.operation_type, limit)
      relatedPatterns ==
        Filter(getAllPatterns(pats),
               LAMBDA p : p.pattern_type = OutcomePatternType(input.outcome))
  IN  [op |-> "recallByOutcome",
       outcome |-> input.outcome,
       operation_type |-> input.operation_type,
       limit |-> limit,
       episodes |-> Map(page, LAMBDA e : e.id),
       count |-> Len(page),
       patterns_detected |-> Map(relatedPatterns, LAMBDA p : p.id),
       avg_utility |-> AvgUtility(page)]

-----------------------------------------------------------------------------
(* Verifier signals (interlock/handlers.ts) *)

(* CLAIM_VERIFIED that also clears deprecated_at *)
claimVerifiedReactivating(les, lessonId, t) ==
  LET found == getLesson(les, lessonId)
  IN  IF lessonId # 0 /\ found # <<>>
      THEN updateLesson(les, lessonId,
             [initial_confidence |->
                Min((95 * Scale) \div 100, (found[1].initial_confidence * 11) \div 10),
              last_validated |-> t,
              deprecated_at |-> NoInt])
      ELSE les

(* CLAIM_VERIFIED: initial_confidence * 1.1, at most 0.95 *)
claimVerified(les, lessonId, t) ==
  LET found == getLesson(les, lessonId)
  IN  IF lessonId # 0 /\ found # <<>>
      THEN updateLesson(les, lessonId,
             [initial_confidence |->
                Min((95 * Scale) \div 100, (found[1].initial_confidence * 11) \div 10),
              last_validated |-> t])
      ELSE les

(* CLAIM_REFUTED without the floor *)
claimRefutedUnfloored(les, lessonId, t) ==
  LET found == getLesson(les, lessonId)
  IN  IF lessonId # 0 /\ found # <<>>
      THEN updateLesson(les, lessonId,
             [initial_confidence |-> (found[1].initial_confidence * 7) \div 10,
              last_validated |-> t])
      ELSE les

(* CLAIM_REFUTED: initial_confidence * 0.7, at least 0.1 *)
claimRefuted(les, lessonId, t) ==
  LET found == getLesson(les, lessonId)
  IN  IF lessonId # 0 /\ found # <<>>
      THEN updateLesson(les, lessonId,
             [initial_confidence |->
                Max(Scale \div 10, (found[1].initial_confidence * 7) \div 10),
              last_validated |-> t])
      ELSE les

(* LESSON_LEARNED: the lesson is stored as sent; confidence = NoInt when    *)
(* the payload has none (or 0), and then 0.5 is stored                     *)
lessonLearned(les, statement, confidence, t) ==
  insertLesson(les,
    [id |-> 0,
     statement |-> statement,
     pattern_id |-> NoInt,
     contexts |-> <<>>,
     initial_confidence |->
       IF confidence = NoInt \/ confidence = 0 THEN Scale \div 2 ELSE confidence,
     decay_constant |-> decayConstant,
     last_validated |-> t,
     times_applied |-> 0,
     times_succeeded |-> 0,
     created_at |-> t,
     deprecated_at |-> NoInt])

-----------------------------------------------------------------------------
(* The problem, solution and metadata columns: JavaScript values written   *)
(* as JSON text by insertEpisode and parsed by rowToEpisode.               *)

(* JavaScript values *)
Null == [t |-> "null"]
Undefined == [t |-> "undefined"]
Str(s) == [t |-> "string", s |-> s]
Num(n) == [t |-> "number", n |-> n]
Arr(items) == [t |-> "array", items |-> items]
Obj(props) == [t |-> "object", props |-> props]
Prop(key, value) == [key |-> key, value |-> value]

(* the tokens of a JSON text *)
Punct(c) == [k |-> "punct", c |-> c]
StringToken(s) == [k |-> "string", s |-> s]
NumberToken(n) == [k |-> "number", n |-> n]
NullToken == [k |-> "literal", w |-> "null"]

(* JSON.stringify: a property whose value is undefined is left out, an     *)
(* undefined array element is written as null                              *)
RECURSIVE JSONstringify(_)
RECURSIVE StringifyItems(_)
RECURSIVE StringifyProps(_)
JSONstringify(v) ==
  CASE v.t = "null" -> <<NullToken>>
    [] v.t = "undefined" -> <<NullToken>>
    [] v.t = "string" -> <<StringToken(v.s)>>
    [] v.t = "number" -> <<NumberToken(v.n)>>
    [] v.t = "array" -> <<Punct("[")>> \o StringifyItems(v.items) \o <<Punct("]")>>
    [] v.t = "object" ->
         <<Punct("{")>>
           \o StringifyProps(SelectSeq(v.props, LAMBDA p : p.value.t # "undefined"))
           \o <<Punct("}")>>

StringifyItems(items) ==
  IF items = <<>> THEN <<>>
  ELSE JSONstringify(Head(items))
         \o (IF Tail(items) = <<>> THEN <<>>
             ELSE <<Punct(",")>> \o StringifyItems(Tail(items)))

StringifyProps(props) ==
  IF props = <<>> THEN <<>>
  ELSE <<StringToken(Head(props).key), Punct(":")>>
         \o JSONstringify(Head(props).value)
         \o (IF Tail(props) = <<>> THEN <<>>
             ELSE <<Punct(",")>> \o StringifyProps(Tail(props)))

IsPunct(tok, c) == tok.k = "punct" /\ tok.c = c

(* JSON.parse: the value that starts at token i, and the position after it *)
RECURSIVE ParseValue(_, _)
RECURSIVE ParseItems(_, _, _)
RECURSIVE ParseProps(_, _, _)
ParseValue(toks, i) ==
  LET tok == toks[i]
  IN  IF tok.k = "literal" THEN [value |-> Null, next |-> i + 1]
      ELSE IF tok.k = "string" THEN [value |-> Str(tok.s), next |-> i + 1]
      ELSE IF tok.k = "number" THEN [value |-> Num(tok.n), next |-> i + 1]
      ELSE IF IsPunct(tok, "[")
      THEN IF IsPunct(toks[i + 1], "]")
           THEN [value |-> Arr(<<>>), next |-> i + 2]
           ELSE ParseItems(toks, i + 1, <<>>)
      ELSE IF IsPunct(toks[i + 1], "}")
           THEN [value |-> Obj(<<>>), next |-> i + 2]
           ELSE ParseProps(toks, i + 1, <<>>)

ParseItems(toks, i, acc) ==
  LET r == ParseValue(toks, i)
      items == Append(acc, r.value)
  IN  IF IsPunct(toks[r.next], ",") THEN ParseItems(toks, r.next + 1, items)
      ELSE [value |-> Arr(items), next |-> r.next + 1]

ParseProps(toks, i, acc) ==
  LET r == ParseValue(toks, i + 2)
      props == Append(acc, Prop(toks[i].s, r.value))
  IN  IF IsPunct(toks[r.next], ",") THEN ParseProps(toks, r.next + 1, props)
      ELSE [value |-> Obj(props), next |-> r.next + 1]

JSONparse(toks) == ParseValue(toks, 1).value

(* a TEXT column holding the tokens toks *)
Text(toks) == [t |-> "text", text |-> toks]

(* the truthiness test of `episode.problem ? ... : null` *)
Truthy(v) ==
  /\ v.t \notin {"null", "undefined"}
  /\ v # Str("")
  /\ v # Num(0)

(* the values insertEpisode binds to its INSERT *)
EpisodeRow(episode) ==
  [id |-> 0,
   timestamp |-> episode.timestamp,
   operation_type |-> episode.operation_type,
   outcome |-> episode.outcome,
   problem |-> IF Truthy(episode.problem)
               THEN Text(JSONstringify(episode.problem)) ELSE Null,
   solution |-> IF Truthy(episode.solution)
                THEN Text(JSONstringify(episode.solution)) ELSE Null,
   metadata |-> IF Truthy(episode.metadata)
                THEN Text(JSONstringify(episode.metadata)) ELSE Null]

(* rowToEpisode that hands the stored text back as it is *)
rowToEpisodeUnparsed(row) ==
  [id |-> row.id,
   timestamp |-> row.timestamp,
   operation_type |-> row.operation_type,
   outcome |-> row.outcome,
   problem |-> IF row.problem.t = "text" THEN row.problem ELSE Undefined,
   solution |-> IF row.solution.t = "text" THEN row.solution ELSE Undefined,
   metadata |-> IF row.metadata.t = "text" THEN row.metadata ELSE Undefined]

rowToEpisode(row) ==
  [id |-> row.id,
   timestamp |-> row.timestamp,
   operation_type |-> row.operation_type,
   outcome |-> row.outcome,
   problem |-> IF row.problem.t = "text" /\ row.problem.text # <<>>
               THEN JSONparse(row.problem.text) ELSE Undefined,
   solution |-> IF row.solution.t = "text" /\ row.solution.text # <<>>
                THEN JSONparse(row.solution.text) ELSE Undefined,
   metadata |-> IF row.metadata.t = "text" /\ row.metadata.text # <<>>
                THEN JSONparse(row.metadata.text) ELSE Undefined]

-----------------------------------------------------------------------------
(* The retention sweep, cleanupOldData(retentionDays).  Its code is not in  *)
(* the source tree; it is modelled from the description of the sweep:       *)
(* episodes older than retentionDays and patterns last seen more than       *)
(* 2 * retentionDays ago are deleted; lessons not yet deprecated, never     *)
(* applied or of low decayed confidence, and not validated within           *)
(* retentionDays are deprecated; the three counts are returned.             *)

StaleLesson(l, retentionDays, t) ==
  /\ l.deprecated_at = NoInt
  /\ \/ l.times_applied = 0
     \/ calculateCurrentConfidence(l.initial_confidence, l.decay_constant,
                                   l.last_validated, t) < thresholdDeprecation
  /\ l.last_validated < t - retentionDays

(* the sweep deprecating every lesson it looks at, deprecated or not *)
cleanupOldDataRepeating(eps, pats, les, retentionDays, t) ==
  LET keptEpisodes == Filter(eps, LAMBDA e : e.timestamp >= t - retentionDays)
      keptPatterns == Filter(pats, LAMBDA p : p.last_seen >= t - 2 * retentionDays)
      stale == Filter(les, LAMBDA l : l.last_validated < t - retentionDays)
  IN  [episodes |-> keptEpisodes,
       patterns |-> keptPatterns,
       lessons |-> [i \in 1..Len(les) |->
                      IF les[i].last_validated < t - retentionDays
                      THEN [les[i] EXCEPT !.deprecated_at = t] ELSE les[i]],
       result |-> [op |-> "cleanup", retention_days |-> retentionDays, at |-> t,
                   deletedEpisodes |-> Len(eps) - Len(keptEpisodes),
                   deletedPatterns |-> Len(pats) - Len(keptPatterns),
                   deprecatedLessons |-> Len(stale)]]

cleanupOldData(eps, pats, les, retentionDays, t) ==
  LET keptEpisodes == Filter(eps, LAMBDA e : e.timestamp >= t - retentionDays)
      keptPatterns == Filter(pats, LAMBDA p : p.last_seen >= t - 2 * retentionDays)
      stale == Filter(les, LAMBDA l : StaleLesson(l, retentionDays, t))
  IN  [episodes |-> keptEpisodes,
       patterns |-> keptPatterns,
       lessons |-> [i \in 1..Len(les) |->
                      IF StaleLesson(les[i], retentionDays, t)
                      THEN [les[i] EXCEPT !.deprecated_at = t] ELSE les[i]],
       result |-> [op |-> "cleanup", retention_days |-> retentionDays, at |-> t,
                   deletedEpisodes |-> Len(eps) - Len(keptEpisodes),
                   deletedPatterns |-> Len(pats) - Len(keptPatterns),
                   deprecatedLessons |-> Len(stale)]]

-----------------------------------------------------------------------------
(* The front ends of the process: the MCP tool call (index.ts), the HTTP    *)
(* gateway (http/server.ts) and the InterLock UDP socket                    *)
(* (interlock/socket.ts, interlock/handlers.ts)                             *)

FrontEnds == {"mcp", "http", "udp"}

(* the steps a record_experience request goes through: the episode insert   *)
(* with the reads of detectPatterns, the pattern write, the answer          *)
RecordSteps == <<"record", "write", "respond">>

(* a handler with an await between the existence check and the write *)
SuspendsBeforeWrite(frontEnd, step) == step \in {"write", "respond"}

(* where a handler hands control back to the event loop before it goes on:  *)
(* recordExperience and the store calls are synchronous, the MCP handler    *)
(* and the signal handlers await nothing, the HTTP route awaits the value   *)
(* its handler has returned                                                 *)
SuspendsBefore(frontEnd, step) == frontEnd = "http" /\ step = "respond"

(* the input each front end hands to recordExperience: the MCP and HTTP     *)
(* front ends pass the caller's arguments on, BUILD_COMPLETED builds its    *)
(* own from the signal payload                                              *)
RequestInput(frontEnd, request) ==
  IF frontEnd = "udp"
  THEN [operation_type |-> <<"build">>,
        outcome |-> IF request.outcome = "success" THEN "success" ELSE "failure",
        server_name |-> "neurogenesis",
        query |-> NoValue,
        quality_score |-> NoInt,
        environment |-> NoValue,
        dependencies |-> 0,
        triggers |-> 1]
  ELSE request

(* a request as a front end receives it *)
NewTask(frontEnd, request) ==
  [front_end |-> frontEnd, input |-> RequestInput(frontEnd, request),
   pc |-> "record", episode_id |-> 0, similar |-> <<>>, existing |-> <<>>,
   found |-> <<>>]

(* recordExperience up to the existence check of detectPatterns *)
TaskRecord(st, t) ==
  LET after == insertEpisode(st.episodes, NewEpisode(st.episodes, st.task.input, t))
      episodeId == MaxId(after)
      read == detectPatternsRead(after, st.patterns, getEpisode(after, episodeId)[1], t)
  IN  [episodes |-> after,
       patterns |-> st.patterns,
       task |-> [st.task EXCEPT !.pc = "write", !.episode_id = episodeId,
                                !.similar = read.similar,
                                !.existing = read.existing]]

(* the rest of detectPatterns: the thresholds and the insert or update *)
TaskWrite(st, t) ==
  LET detected ==
        detectPatternsWrite(st.patterns,
                            getEpisode(st.episodes, st.task.episode_id)[1],
                            st.task.similar, st.task.existing, t)
  IN  [episodes |-> st.episodes,
       patterns |-> detected.patterns,
       task |-> [st.task EXCEPT !.pc = "respond", !.found = detected.found]]

(* the handler runs from where it stands until it suspends or has answered; *)
(* each step works on the values the step before it has produced            *)
RunTask(eps, pats, task, t) ==
  LET recorded ==
        {IF st.task.pc = "record" THEN TaskRecord(st, t) ELSE st :
           st \in {[episodes |-> eps, patterns |-> pats, task |-> task]}}
      written ==
        {IF st.task.pc = "write"
            /\ (task.pc = "write" \/ ~SuspendsBefore(task.front_end, "write"))
         THEN TaskWrite(st, t) ELSE st : st \in recorded}
      answered ==
        {IF st.task.pc = "respond"
            /\ (task.pc = "respond" \/ ~SuspendsBefore(task.front_end, "respond"))
         THEN [st EXCEPT !.task.pc = "done"] ELSE st : st \in written}
  IN  CHOOSE st \in answered : TRUE

(* what recordExperience returns to the front end *)
TaskResult(eps, task) ==
  [op |-> "recordExperience",
   operation_type |-> task.input.operation_type,
   outcome |-> task.input.outcome,
   episode_id |-> task.episode_id,
   recorded |-> TRUE,
   utility_score |-> getEpisode(eps, task.episode_id)[1].utility_score,
   patterns_triggered |-> Map(task.found, LAMBDA p : p.description)]

RemoveAt(s, i) == SubSeq(s, 1, i - 1) \o SubSeq(s, i + 1, Len(s))

-----------------------------------------------------------------------------
(* Inputs *)

ServerNames == {NoValue}
Queries == {NoValue}
QualityScores == {NoInt}
Environments == {NoValue}
DepCounts == {0}
TriggerCounts == {0}

RecordInputsOf(types, outcomes) ==
  [operation_type : types, outcome : outcomes,
   server_name : ServerNames, query : Queries, quality_score : QualityScores,
   environment : Environments, dependencies : DepCounts,
   triggers : TriggerCounts]

RecordInputs == RecordInputsOf({<<"build">>}, {"success", "failure"})

DetectInputs == RecordInputsOf(OperationTypes, {"success", "failure"})

PatternDescriptions == {<<"build">>, <<"flaky ", "build">>}
Statements == {<<"check the cache">>}

(* lists of episode ids: too short, three ids, a repeated id *)
EpisodeIdLists == {<<1, 2>>, <<1, 2, 3>>, <<1, 1, 2>>}

(* lists of episode ids: three ids, a repeated id among four, a fourth id  *)
(* that resolves only once four episodes are stored                        *)
LearnIdLists == {<<1, 2, 3>>, <<1, 2, 3, 3>>, <<1, 2, 3, 4>>}

LearnEvidenceInputs ==
  [pattern_description : PatternDescriptions, episode_ids : LearnIdLists,
   lesson_statement : Statements]

LearnInputs ==
  [pattern_description : PatternDescriptions, episode_ids : EpisodeIdLists,
   lesson_statement : Statements]

LessonIds == 1..(MaxLessons + 1)

LearnedConfidences == {(7 * Scale) \div 10}

(* confidences of a lesson that is then applied: the default, two in     *)
(* between and the ceiling                                                 *)
AppliedConfidences ==
  {NoInt, (7 * Scale) \div 10, (9 * Scale) \div 10, (95 * Scale) \div 100}

StoredConfidences == {NoInt, (7 * Scale) \div 10, (9 * Scale) \div 10}

Limits == 1..MaxLimit

MinConfidences == {0, Scale \div 2}

NoContext == [given |-> FALSE, entries |-> {}]
OperationContext ==
  [given |-> TRUE, entries |-> {[key |-> <<"operation:">>, value |-> <<"x">>]}]

GetLessonsInputs ==
  {[operation_type |-> <<"build">>, context |-> NoContext,
    min_confidence |-> NoInt],
   [operation_type |-> NoText, context |-> OperationContext,
    min_confidence |-> Scale \div 2]}

RecallByTypeInputs ==
  {[operation_type |-> <<"build">>, outcome_filter |-> NoValue,
    limit |-> NoInt],
   [operation_type |-> <<"build">>, outcome_filter |-> "success",
    limit |-> MaxLimit]}

RecallByOutcomeInputs ==
  [outcome : {"failure"}, operation_type : {<<"build">>}, limit : Limits]

(* problem, solution and metadata objects: empty, nested, with null       *)
(* leaves, empty arrays and an undefined property                          *)
Problems ==
  {Undefined,
   Obj(<<>>),
   Obj(<<Prop("query", Str("find files")),
         Prop("constraints", Obj(<<Prop("type", Null)>>))>>),
   Obj(<<Prop("query", Undefined), Prop("context", Obj(<<>>))>>)}

Solutions ==
  {Obj(<<Prop("tool", Str("glob")),
         Prop("params", Obj(<<Prop("pattern", Arr(<<>>))>>))>>),
   Obj(<<Prop("params", Obj(<<Prop("depth", Num(0)), Prop("tool", Str(""))>>))>>),
   Obj(<<Prop("approach", Null)>>)}

EmptyAndNullMetadata ==
  Obj(<<Prop("environment", Null), Prop("dependencies", Arr(<<>>)),
        Prop("triggers", Arr(<<Null, Str("push"), Arr(<<>>)>>))>>)

Metadatas ==
  {EmptyAndNullMetadata,
   Obj(<<Prop("environment", Str("development")),
         Prop("dependencies", Arr(<<Str("node")>>))>>),
   Obj(<<Prop("dependencies", Arr(<<Undefined>>))>>),
   Null}

JsonEpisodes ==
  [timestamp : {0}, operation_type : {<<"search">>}, outcome : {"success"},
   problem : Problems, solution : Solutions, metadata : Metadatas]

(* recordExperience inputs that move every score: with and without a      *)
(* quality score (one of them outside [0,1]), a repeated and a new query,  *)
(* many dependencies, many triggers                                        *)
ScoreQualities == {NoInt, 0, Scale, (3 * Scale) \div 2}
ScoreQueries == {NoValue, "find files"}
ScoreMetadata ==
  {[dependencies |-> 0, triggers |-> 0],
   [dependencies |-> 4, triggers |-> 0],
   [dependencies |-> 0, triggers |-> 5]}

ScoreInputs ==
  {[operation_type |-> <<"build">>, outcome |-> o, server_name |-> NoValue,
    query |-> q, quality_score |-> qs, environment |-> NoValue,
    dependencies |-> md.dependencies, triggers |-> md.triggers] :
     o \in Outcomes, q \in ScoreQueries, qs \in ScoreQualities,
     md \in ScoreMetadata}

(* lessons whose decay is followed day by day: confidence 0, at the       *)
(* floor and at the ceiling, with and without decay                        *)
DecayConfidences == {0, Scale \div 10, (95 * Scale) \div 100}
DecayConstants == {0, decayConstant}
DecaySteps == {1, TickDays}

DecayLessons ==
  [id : {1}, statement : Statements, pattern_id : {NoInt}, contexts : {<<>>},
   initial_confidence : DecayConfidences, decay_constant : DecayConstants,
   last_validated : {0}, times_applied : {0}, times_succeeded : {0},
   created_at : {0}, deprecated_at : {NoInt}]

RetentionDays == {recencyWindowDays}

-----------------------------------------------------------------------------
(* The state machine *)

Init ==
  /\ episodes = <<>>
  /\ patterns = <<>>
  /\ lessons = <<>>
  /\ now = 0
  /\ ret = [op |-> "none"]
  /\ signals = 0
  /\ inflight = <<>>

(* Date.now() advances *)
Tick ==
  /\ now' = now + TickDays
  /\ UNCHANGED <<episodes, patterns, lessons, ret, signals, inflight>>

RecordExperience(input) ==
  LET r == recordExperience(episodes, patterns, input, now)
  IN  /\ episodes' = r.episodes
      /\ patterns' = r.patterns
      /\ ret' = r.result
      /\ UNCHANGED <<lessons, now, signals, inflight>>

LearnFromPattern(input) ==
  LET r == learnFromPattern(episodes, patterns, lessons, input, now)
  IN  /\ patterns' = r.patterns
      /\ lessons' = r.lessons
      /\ ret' = r.result
      /\ UNCHANGED <<episodes, now, signals, inflight>>

ApplyLesson(input) ==
  LET r == applyLesson(patterns, lessons, input, now)
  IN  /\ patterns' = r.patterns
      /\ lessons' = r.lessons
      /\ ret' = r.result
      /\ UNCHANGED <<episodes, now, signals, inflight>>

(* db.deprecateLesson called directly *)
DeprecateLesson(id) ==
  /\ lessons' = deprecateLesson(lessons, id, now)
  /\ ret' = [op |-> "deprecateLesson", lesson_id |-> id]
  /\ UNCHANGED <<episodes, patterns, now, signals, inflight>>

LessonLearned(statement, confidence) ==
  /\ lessons' = lessonLearned(lessons, statement, confidence, now)
  /\ ret' = [op |-> "LESSON_LEARNED", lesson_id |-> MaxId(lessons')]
  /\ UNCHANGED <<episodes, patterns, now, signals, inflight>>

ClaimVerified(id) ==
  /\ lessons' = claimVerified(lessons, id, now)
  /\ ret' = [op |-> "CLAIM_VERIFIED", lesson_id |-> id]
  /\ signals' = signals + 1
  /\ UNCHANGED <<episodes, patterns, now, inflight>>

ClaimRefuted(id) ==
  /\ lessons' = claimRefuted(lessons, id, now)
  /\ ret' = [op |-> "CLAIM_REFUTED", lesson_id |-> id]
  /\ signals' = signals + 1
  /\ UNCHANGED <<episodes, patterns, now, inflight>>

GetActiveLessons(minConfidence) ==
  /\ ret' = [op |-> "getActiveLessons",
             min_confidence |-> minConfidence,
             lessons |-> getActiveLessons(lessons, minConfidence, now)]
  /\ lessons' = lessonsAfterGetActiveLessons(lessons, now)
  /\ UNCHANGED <<episodes, patterns, now, signals, inflight>>

GetLessons(input) ==
  /\ ret' = getLessons(lessons, patterns, input, now)
  /\ lessons' = lessonsAfterGetActiveLessons(lessons, now)
  /\ UNCHANGED <<episodes, patterns, now, signals, inflight>>

GetStats ==
  /\ ret' = getStats(episodes, patterns, lessons, now)
  /\ lessons' = lessonsAfterGetActiveLessons(lessons, now)
  /\ UNCHANGED <<episodes, patterns, now, signals, inflight>>

RecallByType(input) ==
  /\ ret' = recallByType(episodes, patterns, input)
  /\ UNCHANGED <<episodes, patterns, lessons, now, signals, inflight>>

RecallByOutcome(input) ==
  /\ ret' = recallByOutcome(episodes, patterns, input)
  /\ UNCHANGED <<episodes, patterns, lessons, now, signals, inflight>>

TimesApplied(id) ==
  LET found == getLesson(lessons, id)
  IN  IF found = <<>> THEN 0 ELSE found[1].times_applied

Next ==
  \/ now < MaxTicks * TickDays /\ Tick
  \/ \E input \in RecordInputs :
       Len(episodes) < MaxEpisodes /\ RecordExperience(input)
  \/ \E input \in LearnInputs :
       Len(lessons) < MaxLessons /\ LearnFromPattern(input)
  \/ \E id \in LessonIds, outcome \in Outcomes :
       /\ TimesApplied(id) < MaxApplied
       /\ ApplyLesson([lesson_id |-> id, outcome |-> outcome])
  \/ \E id \in 1..MaxLessons : DeprecateLesson(id)
  \/ \E c \in LearnedConfidences :
       Len(lessons) < MaxLessons /\ LessonLearned(<<"check the cache">>, c)
  \/ \E id \in 1..MaxLessons : signals < MaxSignals /\ ClaimVerified(id)
  \/ \E id \in 1..MaxLessons : signals < MaxSignals /\ ClaimRefuted(id)
  \/ \E minConfidence \in MinConfidences : GetActiveLessons(minConfidence)
  \/ \E input \in GetLessonsInputs : GetLessons(input)
  \/ \E input \in RecallByTypeInputs : RecallByType(input)
  \/ \E input \in RecallByOutcomeInputs : RecallByOutcome(input)
  \/ GetStats

Spec == Init /\ [][Next]_vars

(* Pattern detection alone: recordExperience for two operation types, one  *)
(* a substring of the other, as time passes.                               *)
NextDetect ==
  \/ now < MaxTicks * TickDays /\ Tick
  \/ \E input \in DetectInputs :
       Len(episodes) < MaxDetectEpisodes /\ RecordExperience(input)

SpecDetect == Init /\ [][NextDetect]_vars

(* The lessons table: lessons stored by LESSON_LEARNED with several        *)
(* confidences at several times, refuted, deprecated and queried.          *)
NextLessons ==
  \/ now < MaxTicks * TickDays /\ Tick
  \/ \E c \in StoredConfidences :
       Len(lessons) < MaxStoredLessons /\ LessonLearned(<<"check the cache">>, c)
  \/ \E id \in 1..MaxStoredLessons : DeprecateLesson(id)
  \/ \E id \in 1..MaxStoredLessons : signals < MaxSignals /\ ClaimRefuted(id)
  \/ \E minConfidence \in MinConfidences : GetActiveLessons(minConfidence)

SpecLessons == Init /\ [][NextLessons]_vars

(* One lesson applied again and again. *)
NextDecline ==
  \/ now < MaxTicks * TickDays /\ Tick
  \/ \E c \in AppliedConfidences :
       Len(lessons) < 1 /\ LessonLearned(<<"check the cache">>, c)
  \/ \E outcome \in Outcomes :
       /\ TimesApplied(1) < MaxDeclineApplied
       /\ ApplyLesson([lesson_id |-> 1, outcome |-> outcome])

SpecDecline == Init /\ [][NextDecline]_vars

(* The retention sweep, run now and then as episodes, patterns and         *)
(* lessons age.                                                            *)
Cleanup(retentionDays) ==
  LET r == cleanupOldData(episodes, patterns, lessons, retentionDays, now)
  IN  /\ episodes' = r.episodes
      /\ patterns' = r.patterns
      /\ lessons' = r.lessons
      /\ ret' = r.result
      /\ UNCHANGED <<now, signals, inflight>>

NextCleanup ==
  \/ now < MaxCleanupTicks * TickDays /\ Tick
  \/ \E input \in RecordInputs :
       Len(episodes) < MaxEpisodes /\ RecordExperience(input)
  \/ \E c \in LearnedConfidences :
       Len(lessons) < MaxLessons /\ LessonLearned(<<"check the cache">>, c)
  \/ \E retentionDays \in RetentionDays : Cleanup(retentionDays)

SpecCleanup == Init /\ [][NextCleanup]_vars

(* The database layer used directly: episodes with nested structures are  *)
(* inserted and read back.                                                 *)
InsertEpisode(episode) ==
  /\ episodes' = insertEpisode(episodes, EpisodeRow(episode))
  /\ ret' = [op |-> "insertEpisode", episode |-> episode,
             episode_id |-> MaxId(episodes')]
  /\ UNCHANGED <<patterns, lessons, now, signals, inflight>>

GetEpisode(id) ==
  LET found == getEpisode(episodes, id)
  IN  /\ ret' = [op |-> "getEpisode", episode_id |-> id,
                 found |-> found # <<>>,
                 episode |-> IF found # <<>> THEN rowToEpisode(found[1])
                             ELSE Null]
      /\ UNCHANGED <<episodes, patterns, lessons, now, signals, inflight>>

NextJson ==
  \/ \E episode \in JsonEpisodes :
       Len(episodes) < MaxJsonEpisodes /\ InsertEpisode(episode)
  \/ \E id \in 1..(MaxJsonEpisodes + 1) : GetEpisode(id)

SpecJson == Init /\ [][NextJson]_vars

(* recordExperience alone, over inputs that move every score *)
NextScores ==
  \E input \in ScoreInputs :
    Len(episodes) < MaxScoredEpisodes /\ RecordExperience(input)

SpecScores == Init /\ [][NextScores]_vars

(* The decay of one stored lesson, evaluated as the days pass. *)
InitDecay ==
  /\ episodes = <<>>
  /\ patterns = <<>>
  /\ \E lesson \in DecayLessons : lessons = <<lesson>>
  /\ now = 0
  /\ ret = [op |-> "none"]
  /\ signals = 0
  /\ inflight = <<>>

TickBy(days) ==
  /\ now' = now + days
  /\ UNCHANGED <<episodes, patterns, lessons, ret, signals, inflight>>

CalculateCurrentConfidence(id) ==
  LET lesson == getLesson(lessons, id)[1]
  IN  /\ ret' = [op |-> "calculateCurrentConfidence",
                 lesson_id |-> id,
                 initial_confidence |-> lesson.initial_confidence,
                 decay_constant |-> lesson.decay_constant,
                 last_validated |-> lesson.last_validated,
                 at |-> now,
                 value |-> calculateCurrentConfidence(
                             lesson.initial_confidence, lesson.decay_constant,
                             lesson.last_validated, now)]
      /\ UNCHANGED <<episodes, patterns, lessons, now, signals, inflight>>

NextDecay ==
  \/ \E days \in DecaySteps : now < MaxDecayDays /\ TickBy(days)
  \/ CalculateCurrentConfidence(1)

SpecDecay == InitDecay /\ [][NextDecay]_vars

(* A pattern detected, learned from, applied through its lessons and       *)
(* refreshed.                                                              *)
NextUsage ==
  \/ \E input \in RecordInputs :
       Len(episodes) < MaxUsageEpisodes /\ RecordExperience(input)
  \/ \E input \in LearnInputs :
       Len(lessons) < MaxUsageLessons /\ LearnFromPattern(input)
  \/ \E id \in 1..MaxUsageLessons, outcome \in Outcomes :
       /\ id <= Len(lessons)
       /\ TimesApplied(id) < MaxUsageApplied
       /\ ApplyLesson([lesson_id |-> id, outcome |-> outcome])

SpecUsage == Init /\ [][NextUsage]_vars

(* Lessons learned from recorded episodes, with id lists that repeat an id *)
(* or name an episode not stored.                                          *)
NextLearn ==
  \/ \E input \in RecordInputs :
       Len(episodes) < MaxLearnEpisodes /\ RecordExperience(input)
  \/ \E input \in LearnEvidenceInputs :
       Len(lessons) < MaxLearnLessons /\ LearnFromPattern(input)

SpecLearn == Init /\ [][NextLearn]_vars

(* Lessons learned from patterns that age until the retention sweep takes *)
(* them.                                                                   *)
NextIntegrity ==
  \/ now < MaxCleanupTicks * TickDays /\ Tick
  \/ \E input \in RecordInputs :
       Len(episodes) < MaxEpisodes /\ RecordExperience(input)
  \/ \E input \in LearnInputs :
       Len(lessons) < MaxLessons /\ LearnFromPattern(input)
  \/ \E retentionDays \in RetentionDays : Cleanup(retentionDays)

SpecIntegrity == Init /\ [][NextIntegrity]_vars

(* Requests arriving together at the three front ends. Receive queues a     *)
(* request on the event loop; Run lets one handler go on until it suspends  *)
(* or answers.                                                              *)
Receive(frontEnd, request) ==
  /\ inflight' = Append(inflight, NewTask(frontEnd, request))
  /\ UNCHANGED <<episodes, patterns, lessons, now, ret, signals>>

Run(i) ==
  \E r \in {RunTask(episodes, patterns, inflight[i], now)} :
    /\ episodes' = r.episodes
    /\ patterns' = r.patterns
    /\ IF r.task.pc = "done"
       THEN /\ ret' = TaskResult(r.episodes, r.task)
            /\ inflight' = RemoveAt(inflight, i)
       ELSE /\ ret' = ret
            /\ inflight' = [inflight EXCEPT ![i] = r.task]
    /\ UNCHANGED <<lessons, now, signals>>

Started == Len(SelectSeq(inflight, LAMBDA task : task.pc # "record"))

NextConcurrent ==
  \/ \E frontEnd \in FrontEnds : \E request \in RecordInputs :
       /\ Len(episodes) + Len(inflight) - Started < MaxRequests
       /\ Receive(frontEnd, request)
  \/ \E i \in 1..Len(inflight) : Run(i)

SpecConcurrent == Init /\ [][NextConcurrent]_vars

-----------------------------------------------------------------------------
(* Properties *)

(* the steps of each operation: its result is the one just returned *)
RecordStep == ret' # ret /\ ret'.op = "recordExperience"
LearnStep == ret' # ret /\ ret'.op = "learnFromPattern"
ApplyStep == ret' # ret /\ ret'.op = "applyLesson"
GetActiveStep == ret' # ret /\ ret'.op = "getActiveLessons"
GetLessonsStep == ret' # ret /\ ret'.op = "getLessons"
RecallByTypeStep == ret' # ret /\ ret'.op = "recallByType"

IdsOf(rows) == {rows[i].id : i \in 1..Len(rows)}

DecayedConfidence(l, t) ==
  calculateCurrentConfidence(l.initial_confidence, l.decay_constant,
                             l.last_validated, t)

(* C1: a lesson that is deprecated stays deprecated in every later state,   *)
(* whatever operation runs, and no getActiveLessons or getLessons call      *)
(* made from then on returns it, whatever its decayed confidence.           *)
C1_DeprecationIsPermanent ==
  [][\A i \in 1..Len(lessons) :
       lessons[i].deprecated_at # NoInt =>
         /\ i <= Len(lessons')
         /\ lessons'[i].id = lessons[i].id
         /\ lessons'[i].deprecated_at # NoInt
         /\ (GetActiveStep \/ GetLessonsStep) =>
              lessons[i].id \notin IdsOf(ret'.lessons)]_vars

(* a lesson deprecated earlier and validated since is left out of a         *)
(* getActiveLessons answer whose threshold its decayed confidence meets     *)
C1_Witness ==
  /\ ret.op = "getActiveLessons"
  /\ \E i \in 1..Len(lessons) :
       /\ lessons[i].deprecated_at # NoInt
       /\ lessons[i].last_validated > lessons[i].deprecated_at
       /\ DecayedConfidence(lessons[i], now) >= ret.min_confidence
       /\ ret.min_confidence > 0
       /\ lessons[i].id \notin IdsOf(ret.lessons)

(* C2: a lesson applied with outcome 'failure' again and again is           *)
(* auto-deprecated in the end: once MaxDeclineApplied applications, at      *)
(* least 5, have all failed (the blended confidence is by then below the    *)
(* deprecation threshold 0.1), its deprecated_at is set.                    *)
C2_FailingLessonIsDeprecated ==
  \A i \in 1..Len(lessons) :
    (/\ lessons[i].times_applied >= MaxDeclineApplied
     /\ lessons[i].times_applied >= 5
     /\ lessons[i].times_succeeded = 0)
      => lessons[i].deprecated_at # NoInt

(* the stored episodes among the ids a learnFromPattern call was given *)
Resolved(ids) == {id \in Range(ids) : \E i \in 1..Len(episodes) : episodes[i].id = id}

(* C3: learnFromPattern fails with InsufficientEvidence, and leaves the     *)
(* Patterns, Lessons and Episodes as they were, whenever fewer than three   *)
(* of the supplied ids resolve to stored Episodes; with three or more it    *)
(* succeeds, stores one more lesson and links it to a stored pattern.       *)
C3_InsufficientEvidence ==
  [][LearnStep =>
       IF Cardinality(Resolved(ret'.episode_ids)) < 3
       THEN /\ ret'.error = "InsufficientEvidence"
            /\ UNCHANGED <<episodes, patterns, lessons>>
       ELSE /\ ret'.error = NoValue
            /\ Len(lessons') = Len(lessons) + 1
            /\ ret'.lesson_id = lessons'[Len(lessons')].id
            /\ lessons'[Len(lessons')].pattern_id = ret'.pattern_id
            /\ ret'.pattern_id \in IdsOf(patterns')
            /\ episodes' = episodes]_vars

(* three ids were given and three episodes are stored, yet fewer than       *)
(* three ids resolve and the call was refused                               *)
C3_Witness ==
  /\ ret.op = "learnFromPattern"
  /\ ret.error = "InsufficientEvidence"
  /\ Len(ret.episode_ids) >= 3
  /\ Len(episodes) >= 3
  /\ Cardinality(Resolved(ret.episode_ids)) = 2

(* C4: applyLesson with a lesson id that no stored lesson has fails with    *)
(* NotFound and changes no lesson, pattern or episode.                      *)
C4_NotFoundChangesNothing ==
  [][(ApplyStep /\ ret'.lesson_id \notin IdsOf(lessons)) =>
       /\ ret'.error = "NotFound"
       /\ UNCHANGED <<episodes, patterns, lessons>>]_vars

(* an unknown id was refused while a lesson and its pattern were stored *)
C4_Witness ==
  /\ ret.op = "applyLesson"
  /\ ret.error = "NotFound"
  /\ ret.lesson_id \notin IdsOf(lessons)
  /\ lessons # <<>>
  /\ patterns # <<>>

(* the stored episodes of one operation type, by position *)
OfType(T) == {i \in 1..Len(episodes) : episodes[i].operation_type = T}

(* the stored patterns, after the step, whose description contains T *)
PatternsFor(pats, T) == {i \in 1..Len(pats) : Includes(pats[i].description, T)}

(* C5: in a store with no episode of type T, the first and the second       *)
(* recordExperience of type T create no pattern; the third, when all three  *)
(* succeeded inside the recency window, leaves exactly one pattern for T,   *)
(* of pattern_type 'success' and with a discrimination weight above 0.      *)
C5_ThirdSuccessCreatesPattern ==
  [][RecordStep =>
       LET T == ret'.operation_type
           earlier == OfType(T)
       IN  /\ Cardinality(earlier) < 2 => patterns' = patterns
           /\ (/\ Cardinality(earlier) = 2
               /\ ret'.outcome = "success"
               /\ \A i \in earlier :
                    /\ episodes[i].outcome = "success"
                    /\ episodes[i].timestamp >= now - recencyWindowDays)
                => /\ Cardinality(PatternsFor(patterns', T)) = 1
                   /\ \A i \in PatternsFor(patterns', T) :
                        /\ patterns'[i].pattern_type = "success"
                        /\ patterns'[i].discrimination_weight > 0]_vars

(* C6: whatever recordExperience and learnFromPattern calls were made, at   *)
(* most one stored pattern has a description containing a given operation   *)
(* type.                                                                    *)
C6_OnePatternPerType ==
  \A T \in OperationTypes : Cardinality(PatternsFor(patterns, T)) <= 1

(* rows in the order of their key, largest first, equal keys by id *)
OrderedBy(rows, Key(_)) ==
  \A j, k \in 1..Len(rows) :
    j < k => \/ Key(rows[j]) > Key(rows[k])
             \/ Key(rows[j]) = Key(rows[k]) /\ rows[j].id < rows[k].id

(* C7 as stated: getActiveLessons returns its lessons in non-increasing     *)
(* order of decayed confidence, lessons of equal confidence in id order.    *)
C7_OrderedByDecayedConfidence ==
  [][GetActiveStep => OrderedBy(ret'.lessons, CurrentConfidenceOf)]_vars

(* C7, amended: getActiveLessons returns its lessons in non-increasing      *)
(* order of the stored initial_confidence, lessons of equal stored          *)
(* confidence in id order.                                                  *)
C7_OrderedByStoredConfidence ==
  [][GetActiveStep => OrderedBy(ret'.lessons, InitialConfidenceOf)]_vars

(* an answer whose first lesson has decayed below its second *)
C7_Witness ==
  /\ ret.op = "getActiveLessons"
  /\ Len(ret.lessons) >= 2
  /\ ret.lessons[1].initial_confidence > ret.lessons[2].initial_confidence
  /\ ret.lessons[1].current_confidence < ret.lessons[2].current_confidence

(* C8: getActiveLessons(min) returns, each once, exactly the lessons that   *)
(* are not deprecated and whose decayed confidence at the time of the call  *)
(* is at least min.                                                         *)
C8_ExactlyTheActiveLessons ==
  [][GetActiveStep =>
       LET expected ==
             {lessons'[i].id : i \in
                {j \in 1..Len(lessons') :
                   /\ lessons'[j].deprecated_at = NoInt
                   /\ DecayedConfidence(lessons'[j], now') >= ret'.min_confidence}}
       IN  /\ IdsOf(ret'.lessons) = expected
           /\ Len(ret'.lessons) = Cardinality(expected)]_vars

(* an answer that holds one lesson, leaves out a deprecated one and leaves  *)
(* out one whose stored confidence meets the threshold but whose decayed    *)
(* confidence does not                                                      *)
C8_Witness ==
  /\ ret.op = "getActiveLessons"
  /\ ret.min_confidence > 0
  /\ ret.lessons # <<>>
  /\ \E i, j \in 1..Len(lessons) :
       /\ lessons[i].deprecated_at # NoInt
       /\ lessons[i].id \notin IdsOf(ret.lessons)
       /\ lessons[j].deprecated_at = NoInt
       /\ lessons[j].initial_confidence >= ret.min_confidence
       /\ DecayedConfidence(lessons[j], now) < ret.min_confidence
       /\ lessons[j].id \notin IdsOf(ret.lessons)

EpisodeById(id) == CHOOSE e \in Range(episodes) : e.id = id

(* C9: recallByType(T, limit, filter), with M stored episodes of type T     *)
(* matching the filter, returns min(limit, M) of them, newest first, none   *)
(* older than a matching episode it leaves out, and reports their number.   *)
C9_RecallReturnsMostRecent ==
  [][RecallByTypeStep =>
       LET matching ==
             {episodes[i].id : i \in
                {j \in OfType(ret'.operation_type) :
                   \/ ret'.outcome_filter = NoValue
                   \/ episodes[j].outcome = ret'.outcome_filter}}
           page == ret'.episodes
       IN  /\ Len(page) = Min(ret'.limit, Cardinality(matching))
           /\ ret'.count = Len(page)
           /\ Range(page) \subseteq matching
           /\ Cardinality(Range(page)) = Len(page)
           /\ \A j, k \in 1..Len(page) :
                j < k => EpisodeById(page[j]).timestamp
                           >= EpisodeById(page[k]).timestamp
           /\ \A id \in matching \ Range(page) : \A j \in 1..Len(page) :
                EpisodeById(id).timestamp <= EpisodeById(page[j]).timestamp]_vars

(* C10: a stored episode never changes: every later state holds it with     *)
(* the same id, type, outcome and scores; the number of episodes grows by   *)
(* one with each recordExperience and with nothing else.                    *)
C10_EpisodesAreImmutable ==
  [][/\ Len(episodes') >= Len(episodes)
     /\ \A i \in 1..Len(episodes) : episodes'[i] = episodes[i]
     /\ Len(episodes') = Len(episodes) + (IF RecordStep THEN 1 ELSE 0)]_vars

(* three episodes are stored and a lesson learned from them has since been  *)
(* applied                                                                  *)
C10_Witness ==
  /\ Len(episodes) = MaxEpisodes
  /\ \A i \in 1..Len(episodes) : episodes[i].id = i
  /\ ret.op = "applyLesson"
  /\ ret.error = NoValue
  /\ \E i \in 1..Len(lessons) : lessons[i].pattern_id \in IdsOf(patterns)

CleanupStep == ret' # ret /\ ret'.op = "cleanup"

(* C11: cleanup(retentionDays) deletes every episode whose timestamp is     *)
(* older than now - retentionDays and leaves every newer episode as it      *)
(* was; run a second time right after, it deletes and deprecates nothing.   *)
C11_CleanupIsIdempotent ==
  [][CleanupStep =>
       LET cutoff == now - ret'.retention_days
       IN  /\ episodes' = SelectSeq(episodes, LAMBDA e : e.timestamp >= cutoff)
           /\ ret'.deletedEpisodes = Len(episodes) - Len(episodes')
           /\ (/\ ret.op = "cleanup"
               /\ ret.at = now
               /\ ret.retention_days = ret'.retention_days)
                => /\ ret'.deletedEpisodes = 0
                   /\ ret'.deletedPatterns = 0
                   /\ ret'.deprecatedLessons = 0
                   /\ UNCHANGED <<episodes, patterns, lessons>>]_vars

(* a second sweep right after one that deleted an old episode, kept a       *)
(* newer one and deprecated a lesson                                        *)
C11_Witness ==
  /\ ret.op = "cleanup"
  /\ ret.deletedEpisodes = 0
  /\ ret.deprecatedLessons = 0
  /\ episodes # <<>>
  /\ MaxId(episodes) > Len(episodes)
  /\ \E i \in 1..Len(lessons) : lessons[i].deprecated_at = now

(* a value JSON can write: no undefined anywhere in it *)
RECURSIVE IsJson(_)
IsJson(v) ==
  CASE v.t = "undefined" -> FALSE
    [] v.t = "array" -> \A i \in 1..Len(v.items) : IsJson(v.items[i])
    [] v.t = "object" -> \A i \in 1..Len(v.props) : IsJson(v.props[i].value)
    [] OTHER -> TRUE

(* an inserted structure and the one read back for it agree *)
ReadBackEqual(inserted, read) ==
  (inserted.t = "object" /\ IsJson(inserted)) => read = inserted

(* C12: an episode inserted with nested problem, solution and metadata     *)
(* objects is read back by getEpisode with structures deep-equal to the    *)
(* ones inserted, empty arrays and null leaves included.                   *)
C12_JsonRoundTrip ==
  [][(/\ ret.op = "insertEpisode"
      /\ ret'.op = "getEpisode"
      /\ ret'.episode_id = ret.episode_id) =>
       /\ ret'.found
       /\ ReadBackEqual(ret.episode.problem, ret'.episode.problem)
       /\ ReadBackEqual(ret.episode.solution, ret'.episode.solution)
       /\ ReadBackEqual(ret.episode.metadata, ret'.episode.metadata)]_vars

(* an episode read back with a nested problem and a metadata object that   *)
(* holds a null leaf, an empty array and an array with a null element      *)
C12_Witness ==
  /\ ret.op = "getEpisode"
  /\ ret.found
  /\ ret.episode.metadata = EmptyAndNullMetadata
  /\ ret.episode.problem.t = "object"
  /\ \E i \in 1..Len(ret.episode.problem.props) :
       ret.episode.problem.props[i].value.t = "object"
  /\ ret.episode.solution.t = "object"

UnitInterval(x) == 0 <= x /\ x <= Scale

(* C13: every episode recordExperience stored with no quality_score or     *)
(* with one in [0,1] has its novelty, effectiveness, generalizability and  *)
(* utility scores in [0,1], and its utility is 0.3 novelty + 0.5           *)
(* effectiveness + 0.2 generalizability.                                   *)
C13_ScoresInUnitInterval ==
  \A i \in 1..Len(episodes) :
    LET e == episodes[i]
    IN  (e.quality_score = NoInt \/ UnitInterval(e.quality_score)) =>
          /\ UnitInterval(e.novelty_score)
          /\ UnitInterval(e.effectiveness_score)
          /\ UnitInterval(e.generalizability_score)
          /\ UnitInterval(e.utility_score)
          /\ 10 * e.utility_score <=
                3 * e.novelty_score + 5 * e.effectiveness_score
                  + 2 * e.generalizability_score
          /\ 10 * e.utility_score + 10 >
                3 * e.novelty_score + 5 * e.effectiveness_score
                  + 2 * e.generalizability_score

(* a first episode without a quality score and a second one, of the same   *)
(* query, with quality 1.0: novelty at its floor, effectiveness at 1.0     *)
C13_Witness ==
  /\ Len(episodes) = 2
  /\ episodes[1].quality_score = NoInt
  /\ episodes[1].novelty_score = Scale
  /\ episodes[2].quality_score = Scale
  /\ episodes[2].effectiveness_score = Scale
  /\ episodes[2].novelty_score = Scale \div 10
  /\ episodes[2].dependencies = 4

(* C14: calculateCurrentConfidence(c, k, lastValidated) never grows as the *)
(* time since lastValidated grows, shrinks strictly when k > 0 and c > 0,  *)
(* and is c itself when now is lastValidated.                              *)
C14_DecayIsMonotonic ==
  [][ret'.op = "calculateCurrentConfidence" =>
       /\ ret'.at = ret'.last_validated => ret'.value = ret'.initial_confidence
       /\ (/\ ret.op = "calculateCurrentConfidence"
           /\ ret.lesson_id = ret'.lesson_id
           /\ ret'.at > ret.at)
            => /\ ret'.value <= ret.value
               /\ (ret'.decay_constant > 0 /\ ret'.initial_confidence > 0)
                    => ret'.value < ret.value]_vars

(* a decaying lesson evaluated one day after another evaluation, late in   *)
(* its decay                                                               *)
C14_Witness ==
  /\ ret.op = "calculateCurrentConfidence"
  /\ ret.decay_constant > 0
  /\ ret.initial_confidence = Scale \div 10
  /\ ret.at = MaxDecayDays + 1
  /\ ret.value < ret.initial_confidence
  /\ ret.value > 0

(* the row of the lesson an applyLesson result is about, before and after *)
LessonRow(les, id) == getLesson(les, id)[1]

(* C15 as stated: applying a lesson with outcome success while it has not  *)
(* been applied before leaves a stored initial_confidence strictly greater *)
(* than the initial_confidence stored before the call.                     *)
C15_SuccessRaisesStoredConfidence ==
  [][(/\ ApplyStep
      /\ ret'.error = NoValue
      /\ ret'.outcome = "success"
      /\ ret'.total_applications = 1) =>
       LessonRow(lessons', ret'.lesson_id).initial_confidence
         > LessonRow(lessons, ret'.lesson_id).initial_confidence]_vars

(* C15, amended: applying a lesson with outcome success when it has not    *)
(* been applied before leaves a stored initial_confidence strictly greater *)
(* than the decayed confidence it had at the call (previous_confidence),   *)
(* provided that was below 0.95.                                           *)
C15_SuccessRaisesDecayedConfidence ==
  [][(/\ ApplyStep
      /\ ret'.error = NoValue
      /\ ret'.outcome = "success"
      /\ ret'.total_applications = 1
      /\ ret'.previous_confidence < (95 * Scale) \div 100) =>
       /\ ret'.previous_confidence =
            DecayedConfidence(LessonRow(lessons, ret'.lesson_id), now)
       /\ LessonRow(lessons', ret'.lesson_id).initial_confidence
            > ret'.previous_confidence
       /\ ret'.new_confidence
            = LessonRow(lessons', ret'.lesson_id).initial_confidence]_vars

(* a first, successful application of a lesson that had decayed: its new   *)
(* stored confidence is above the decayed one and below the one stored     *)
(* before                                                                  *)
C15_Witness ==
  /\ ret.op = "applyLesson"
  /\ ret.error = NoValue
  /\ ret.outcome = "success"
  /\ ret.total_applications = 1
  /\ now > 0
  /\ ret.new_confidence > ret.previous_confidence
  /\ ret.new_confidence < (9 * Scale) \div 10
  /\ ret.previous_confidence > Scale \div 2

(* C16: however requests for one operation type received together by the   *)
(* MCP, HTTP and UDP front ends are interleaved, no request is ever left    *)
(* between its pattern existence check and its insert or update, at most    *)
(* one pattern is stored for the type, and every pattern write leaves the   *)
(* pattern covering all the stored episodes of the type and, when the       *)
(* pattern existed, built on its previous refresh: same id, confidence the  *)
(* mean of the stored confidence and the new weight                         *)
C16_SimultaneousRequestsAreAtomic ==
  [][/\ \A i \in 1..Len(inflight') : inflight'[i].pc # "write"
     /\ Cardinality(PatternsFor(patterns', <<"build">>)) <= 1
     /\ patterns' # patterns =>
          LET after == patterns'[Len(patterns')]
          IN  /\ after.frequency = Len(episodes')
              /\ Range(after.episode_ids) = IdsOf(episodes')
              /\ patterns # <<>> =>
                   /\ after.id = patterns[1].id
                   /\ after.initial_confidence =
                        (patterns[1].initial_confidence
                           + after.discrimination_weight) \div 2]_vars

(* a pattern refreshed by a later request while an HTTP request that had    *)
(* written earlier was still waiting to answer, with a signal's episode     *)
(* among the stored ones                                                    *)
C16_Witness ==
  /\ Len(patterns) = 1
  /\ patterns[1].frequency > minEpisodes
  /\ \E i \in 1..Len(inflight) :
       /\ inflight[i].front_end = "http"
       /\ inflight[i].pc = "respond"
       /\ inflight[i].episode_id < patterns[1].frequency
  /\ \E i \in 1..Len(episodes) : episodes[i].server_name = "neurogenesis"

(* the steps of the read operations *)
ReadStep ==
  /\ ret' # ret
  /\ ret'.op \in {"recallByType", "recallByOutcome", "getLessons",
                  "getActiveLessons", "getStats"}

(* the step changed the stored confidence or validation time of lesson i *)
ConfidenceTouched(i) ==
  \/ lessons'[i].initial_confidence # lessons[i].initial_confidence
  \/ lessons'[i].last_validated # lessons[i].last_validated

(* C17: recallByType, recallByOutcome, getLessons, getActiveLessons and     *)
(* getStats leave the episodes, patterns and lessons tables as they were,   *)
(* and a stored lesson's initial_confidence and last_validated change only  *)
(* in an applyLesson of that lesson or in a CLAIM_VERIFIED or CLAIM_REFUTED *)
(* signal about it                                                          *)
C17_ReadsLeaveTheStoreUnchanged ==
  [][/\ ReadStep => UNCHANGED <<episodes, patterns, lessons>>
     /\ \A i \in 1..Len(lessons) :
          ConfidenceTouched(i) =>
            \/ ApplyStep /\ ret'.lesson_id = lessons[i].id
            \/ /\ signals' # signals
               /\ ret'.op \in {"CLAIM_VERIFIED", "CLAIM_REFUTED"}
               /\ ret'.lesson_id = lessons[i].id]_vars

(* a getActiveLessons answer reporting a decayed confidence below the       *)
(* stored one while the row still holds the stored confidence and its       *)
(* earlier validation time                                                  *)
C17_Witness ==
  /\ ret.op = "getActiveLessons"
  /\ \E k \in 1..Len(ret.lessons) :
       /\ ret.lessons[k].current_confidence < ret.lessons[k].initial_confidence
       /\ LET row == getLesson(lessons, ret.lessons[k].id)[1]
          IN  /\ row.initial_confidence = ret.lessons[k].initial_confidence
              /\ row.last_validated < now

(* twice s + 0.5 p for the calls up to the result r: what a success rate of *)
(* (s + 0.5 p) / (s + p + f) over r.total_applications calls amounts to     *)
HalvesOf(r) ==
  (r.success_rate * 2 * r.total_applications + Scale \div 2) \div Scale

(* C18: for a lesson that starts with times_applied = 0 and                 *)
(* times_succeeded = 0, every applyLesson call returns total_applications   *)
(* = s + p + f and success_rate = (s + 0.5 p) / (s + p + f) for the s       *)
(* success, p partial and f failure outcomes applied so far: the first call *)
(* returns 1 and its own outcome's share, and each later call adds one call *)
(* and its outcome's share to what the call before it returned              *)
C18_SuccessRateCountsPartialAsHalf ==
  [][ApplyStep /\ ret'.error = NoValue =>
       LET first == LessonRow(lessons, ret'.lesson_id).times_applied = 0
           calls == IF first THEN 0 ELSE ret.total_applications
           halves == (IF first THEN 0 ELSE HalvesOf(ret))
                       + SucceededHalves(ret'.outcome)
       IN  /\ ret'.total_applications = calls + 1
           /\ ret'.success_rate = (halves * Scale) \div (2 * (calls + 1))]_vars

FailureStep == ApplyStep /\ ret'.error = NoValue /\ ret'.outcome = "failure"

(* C19 as stated: every applyLesson with outcome failure on an existing     *)
(* lesson returns a new_confidence strictly below its previous_confidence   *)
C19_FailureDecreasesConfidence ==
  [][FailureStep => ret'.new_confidence < ret'.previous_confidence]_vars

(* C19: an applyLesson with outcome failure returns a new_confidence        *)
(* strictly below its previous_confidence whenever that previous            *)
(* confidence is above the floor 0.1 and above 0.7 times the returned       *)
(* success rate; at or below the floor the new confidence is at least the   *)
(* floor and so not below the previous one                                  *)
C19_FailureDecreasesConfidenceAboveFloor ==
  [][FailureStep =>
       /\ (/\ ret'.previous_confidence > Scale \div 10
           /\ 10 * ret'.previous_confidence > 7 * ret'.success_rate)
            => ret'.new_confidence < ret'.previous_confidence
       /\ ret'.previous_confidence <= Scale \div 10
            => ret'.new_confidence >= Scale \div 10]_vars

(* a failure after earlier successes that lowered a confidence above the    *)
(* floor                                                                    *)
C19_Witness ==
  /\ ret.op = "applyLesson"
  /\ ret.outcome = "failure"
  /\ ret.error = NoValue
  /\ ret.success_rate > 0
  /\ ret.previous_confidence > Scale \div 10
  /\ ret.new_confidence < ret.previous_confidence

(* the applications counted by the lessons that reference pattern id *)
AppliedThrough(les, id) ==
  SumSeq(Map(Filter(les, LAMBDA l : l.pattern_id = id),
             LAMBDA l : l.times_applied))

(* the step is an applyLesson that went through on a lesson of pattern id *)
AppliesTo(id) ==
  /\ ApplyStep
  /\ ret'.error = NoValue
  /\ LessonRow(lessons, ret'.lesson_id).pattern_id = id

(* C20: a pattern is created with zero usage counters; an applyLesson that  *)
(* goes through on a lesson referencing it adds one to its times_applied    *)
(* and, only when the outcome is success, one to its times_succeeded; no    *)
(* other step, pattern refresh by recordExperience and reuse by             *)
(* learnFromPattern included, changes the counters; so times_applied is    *)
(* the number of applications made through its lessons and times_succeeded  *)
(* never exceeds it                                                         *)
C20_PatternUsageCounters ==
  [][\A i \in 1..Len(patterns') :
       LET after == patterns'[i]
       IN  /\ after.times_succeeded <= after.times_applied
           /\ after.times_applied = AppliedThrough(lessons', after.id)
           /\ IF i > Len(patterns)
              THEN after.times_applied = 0 /\ after.times_succeeded = 0
              ELSE LET hit == AppliesTo(patterns[i].id)
                   IN  /\ after.id = patterns[i].id
                       /\ after.times_applied =
                            patterns[i].times_applied + (IF hit THEN 1 ELSE 0)
                       /\ after.times_succeeded =
                            patterns[i].times_succeeded
                              + (IF hit /\ ret'.outcome = "success"
                                 THEN 1 ELSE 0)]_vars

(* a pattern with two lessons, applied twice with one success and one       *)
(* partial, just refreshed by a fourth episode                              *)
C20_Witness ==
  /\ ret.op = "recordExperience"
  /\ ret.patterns_triggered # <<>>
  /\ Len(patterns) = 1
  /\ patterns[1].frequency > minEpisodes
  /\ Len(lessons) = 2
  /\ \A k \in 1..2 : lessons[k].pattern_id = patterns[1].id
  /\ lessons[1].times_applied = 1
  /\ lessons[2].times_applied = 1
  /\ patterns[1].times_applied = 2
  /\ patterns[1].times_succeeded = 1

(* the same-type episodes of the recency window that detectPatterns reads   *)
(* in the recordExperience step just taken                                  *)
WindowAfter ==
  getEpisodesByType(episodes', ret'.operation_type, now - recencyWindowDays, 500)

(* C21: a recordExperience that finds fewer than 3 same-type episodes in    *)
(* the 30-day window, or a discrimination weight below 0.3, leaves the      *)
(* patterns table as it was, a pattern matching the type included, and      *)
(* returns no triggered pattern, while its episode is stored                *)
C21_BelowThresholdLeavesPatterns ==
  [][(/\ RecordStep
      /\ \/ Len(WindowAfter) < 3
         \/ 10 * DetectWeight(WindowAfter, now) < 3 * Scale)
       => /\ patterns' = patterns
          /\ ret'.patterns_triggered = <<>>
          /\ Len(episodes') = Len(episodes) + 1
          /\ episodes'[Len(episodes')].id = ret'.episode_id
          /\ episodes'[Len(episodes')].operation_type = ret'.operation_type]_vars

(* an episode recorded below the thresholds while a pattern matching its    *)
(* type, last seen earlier, is stored                                       *)
C21_Witness ==
  /\ ret.op = "recordExperience"
  /\ ret.patterns_triggered = <<>>
  /\ episodes # <<>>
  /\ episodes[Len(episodes)].id = ret.episode_id
  /\ episodes[Len(episodes)].timestamp = now
  /\ \E i \in PatternsFor(patterns, ret.operation_type) :
       patterns[i].last_seen < now

(* the stored episodes a pattern's episode_ids name *)
EpisodesOf(p) == getEpisodesByIds(episodes, p.episode_ids)

(* C22: in every reachable state each pattern's pattern_type is the one the *)
(* success rate of the episodes in its episode_ids gives: 'success' above   *)
(* 0.6, 'failure' below 0.4, 'correlation' otherwise                        *)
C22_PatternTypeMatchesRate ==
  \A i \in 1..Len(patterns) :
    LET es == EpisodesOf(patterns[i])
        successCount == Len(Filter(es, LAMBDA e : e.outcome = "success"))
    IN  es # <<>> =>
          patterns[i].pattern_type = PatternTypeOf(successCount, Len(es))

(* C23: in every reachable state each pattern's frequency is the number of  *)
(* ids in its episode_ids, whether recordExperience created or refreshed it *)
(* or learnFromPattern created or reused it                                 *)
C23_FrequencyCountsEpisodeIds ==
  \A i \in 1..Len(patterns) :
    patterns[i].frequency = Len(patterns[i].episode_ids)

-----------------------------------------------------------------------------
(* Signal dispatch (interlock/socket.ts, interlock/tumbler.ts,              *)
(* interlock/handlers.ts).  A decoded signal is read through its           *)
(* signalType and payload fields; a field the decoder did not set reads    *)
(* as undefined.                                                           *)

MaxDispatched == 4
MaxSignalLessons == 2

NoPayload == [present |-> FALSE, lesson_id |-> 0, confidence |-> NoInt]

(* registerHandler: the signal types that have a handler *)
handlers == {"LESSON_LEARNED", "CLAIM_VERIFIED", "CLAIM_REFUTED", "HEARTBEAT"}

SignalTypeValues == handlers \cup {"UNKNOWN_AB", NoValue}

(* confidence in a LESSON_LEARNED payload: none, near the floor, near the  *)
(* ceiling, and 1                                                          *)
SignalConfidences == {NoInt, (12 * Scale) \div 100, (9 * Scale) \div 10, Scale}

Payloads ==
  {NoPayload}
    \cup [present : {TRUE}, lesson_id : 0..MaxSignalLessons,
          confidence : SignalConfidences]

Signals == [signalType : SignalTypeValues, payload : Payloads]

TumblerConfigs ==
  {[mode |-> "whitelist", list |-> {}],
   [mode |-> "whitelist", list |-> handlers],
   [mode |-> "blacklist", list |-> {"HEARTBEAT"}]}

(* getSignalName: code.toString(16) on an undefined code is a TypeError *)
getSignalNameThrows(signalType) == signalType = NoValue

(* isSignalAllowed: the name is computed first, then looked up in the list *)
isSignalAllowed(signal, config) ==
  [threw |-> getSignalNameThrows(signal.signalType),
   allowed |-> IF config.mode = "whitelist"
               THEN signal.signalType \in config.list
               ELSE signal.signalType \notin config.list]

(* The registered handler for one signal type.  Each begins by             *)
(* destructuring signal.payload, a TypeError when there is none.           *)
runHandler(signal, les, t) ==
  IF ~signal.payload.present
  THEN [lessons |-> les, threw |-> TRUE]
  ELSE [lessons |->
          CASE signal.signalType = "LESSON_LEARNED" ->
                 lessonLearned(les, <<"check the cache">>,
                               signal.payload.confidence, t)
            [] signal.signalType = "CLAIM_VERIFIED" ->
                 claimVerified(les, signal.payload.lesson_id, t)
            [] signal.signalType = "CLAIM_REFUTED" ->
                 claimRefuted(les, signal.payload.lesson_id, t)
            [] OTHER -> les,
        threw |-> FALSE]

(* handleSignal with the handler called outside any try block *)
handleSignalUnguarded(signal, les, t) ==
  IF getSignalNameThrows(signal.signalType)
  THEN [lessons |-> les, handler_called |-> FALSE, caught |-> FALSE,
        thrown |-> TRUE]
  ELSE IF signal.signalType \in handlers
  THEN LET r == runHandler(signal, les, t)
       IN  [lessons |-> r.lessons, handler_called |-> TRUE,
            caught |-> FALSE, thrown |-> r.threw]
  ELSE [lessons |-> les, handler_called |-> FALSE, caught |-> FALSE,
        thrown |-> FALSE]

(* handleSignal: the handler is looked up and the name computed, then the  *)
(* handler runs inside try/catch; without a handler a line is logged       *)
handleSignal(signal, les, t) ==
  IF getSignalNameThrows(signal.signalType)
  THEN [lessons |-> les, handler_called |-> FALSE, caught |-> FALSE,
        thrown |-> TRUE]
  ELSE IF signal.signalType \in handlers
  THEN LET r == runHandler(signal, les, t)
       IN  [lessons |-> r.lessons, handler_called |-> TRUE,
            caught |-> r.threw, thrown |-> FALSE]
  ELSE [lessons |-> les, handler_called |-> FALSE, caught |-> FALSE,
        thrown |-> FALSE]

(* socket.on('message'): decode, tumbler, dispatch, all inside one try *)
SocketMessage(signal, config) ==
  LET gate == isSignalAllowed(signal, config)
  IN  /\ signals' = signals + 1
      /\ IF gate.threw \/ ~gate.allowed
         THEN /\ ret' = [op |-> "message", n |-> signals',
                         signalType |-> signal.signalType,
                         rejected |-> gate.threw]
              /\ UNCHANGED lessons
         ELSE \E r \in {handleSignal(signal, lessons, now)} :
                /\ lessons' = r.lessons
                /\ ret' = [op |-> "handleSignal", n |-> signals',
                           signalType |-> signal.signalType,
                           payload |-> signal.payload,
                           handler_called |-> r.handler_called,
                           caught |-> r.caught,
                           thrown |-> r.thrown]
      /\ UNCHANGED <<episodes, patterns, now, inflight>>

NextSignals ==
  \E signal \in Signals, config \in TumblerConfigs :
    /\ signals < MaxDispatched
    /\ signal.signalType = "LESSON_LEARNED" => Len(lessons) < MaxSignalLessons
    /\ SocketMessage(signal, config)

SpecSignals == Init /\ [][NextSignals]_vars

HandleSignalStep == ret' # ret /\ ret'.op = "handleSignal"

VerdictStep(signalType) ==
  /\ HandleSignalStep
  /\ ret'.signalType = signalType
  /\ ret'.payload.present
  /\ getLesson(lessons, ret'.payload.lesson_id) # <<>>

ConfidenceBefore == getLesson(lessons, ret'.payload.lesson_id)[1].initial_confidence
ConfidenceAfter == getLesson(lessons', ret'.payload.lesson_id)[1].initial_confidence

-----------------------------------------------------------------------------
(* Lessons learned from patterns, then applied, verified and refuted as    *)
(* time passes.                                                            *)

MaxConfidenceEpisodes == 3
MaxConfidenceLessons == 1
MaxConfidenceApplied == 3
MaxVerdicts == 3

NextConfidence ==
  \/ now < MaxTicks * TickDays /\ Tick
  \/ \E input \in RecordInputs :
       Len(episodes) < MaxConfidenceEpisodes /\ RecordExperience(input)
  \/ \E input \in LearnInputs :
       Len(lessons) < MaxConfidenceLessons /\ LearnFromPattern(input)
  \/ \E id \in 1..MaxConfidenceLessons, outcome \in Outcomes :
       /\ id <= Len(lessons)
       /\ TimesApplied(id) < MaxConfidenceApplied
       /\ ApplyLesson([lesson_id |-> id, outcome |-> outcome])
  \/ \E id \in 1..MaxConfidenceLessons :
       /\ id <= Len(lessons)
       /\ signals < MaxVerdicts
       /\ ClaimVerified(id)
  \/ \E id \in 1..MaxConfidenceLessons :
       /\ id <= Len(lessons)
       /\ signals < MaxVerdicts
       /\ ClaimRefuted(id)

SpecConfidence == Init /\ [][NextConfidence]_vars

(* C27: a lesson created by learnFromPattern and afterwards changed only   *)
(* by applyLesson and CLAIM_VERIFIED / CLAIM_REFUTED has its stored        *)
(* initial_confidence in [0.1, 0.95] in every reachable state, and         *)
(* learnFromPattern starts it in [0.3, 0.9]                                *)
C27_LearnedConfidenceStaysInRange ==
  /\ [](\A i \in 1..Len(lessons) :
          /\ lessons[i].initial_confidence >= Scale \div 10
          /\ lessons[i].initial_confidence <= (95 * Scale) \div 100)
  /\ [][(LearnStep /\ ret'.error = NoValue) =>
          LET learned == getLesson(lessons', ret'.lesson_id)[1].initial_confidence
          IN  /\ learned >= (3 * Scale) \div 10
              /\ learned <= (9 * Scale) \div 10
              /\ learned = ret'.initial_confidence]_vars

(* a learned lesson, applied and refuted, stands at the floor *)
C27_Witness ==
  /\ Len(lessons) >= 1
  /\ lessons[1].pattern_id # NoInt
  /\ lessons[1].times_applied >= 1
  /\ signals >= 1
  /\ lessons[1].initial_confidence = Scale \div 10

(* C28: after any sequence of applyLesson calls on a lesson whose counters *)
(* started as integers with times_succeeded <= times_applied, the stored   *)
(* counters are integers, times_applied has grown by exactly one per call, *)
(* and times_succeeded <= times_applied still holds                        *)
C28_CountersStayConsistent ==
  /\ [](\A i \in 1..Len(lessons) :
          /\ lessons[i].times_applied \in Nat
          /\ lessons[i].times_succeeded \in Nat
          /\ lessons[i].times_succeeded <= lessons[i].times_applied)
  /\ [][(ApplyStep /\ ret'.error = NoValue) =>
          LET before == getLesson(lessons, ret'.lesson_id)[1]
              after == getLesson(lessons', ret'.lesson_id)[1]
          IN  /\ after.times_applied = before.times_applied + 1
              /\ after.times_applied = ret'.total_applications
              /\ after.times_succeeded - before.times_succeeded \in {0, 1}]_vars

(* three partial outcomes in a row, each rounded up: 3 of 3 *)
C28_Witness ==
  /\ ret.op = "applyLesson"
  /\ ret.error = NoValue
  /\ ret.outcome = "partial"
  /\ Len(lessons) = 1
  /\ lessons[1].times_applied = 3
  /\ lessons[1].times_succeeded = 3

(* C29: after any sequence of recordExperience calls every pattern's       *)
(* stored initial_confidence is a confidence value in [0, 1], when the     *)
(* pattern is newly inserted and after each refresh                        *)
C29_PatternConfidenceIsAConfidence ==
  \A i \in 1..Len(patterns) :
    /\ patterns[i].initial_confidence >= 0
    /\ patterns[i].initial_confidence <= Scale

-----------------------------------------------------------------------------
(* Episodes of one operation type with every outcome, recorded as the      *)
(* recency window moves.                                                   *)

MaxWindowEpisodes == 6

WindowInputs == RecordInputsOf({<<"build">>}, Outcomes)

NextWindow ==
  \/ now < MaxTicks * TickDays /\ Tick
  \/ \E input \in WindowInputs :
       Len(episodes) < MaxWindowEpisodes /\ RecordExperience(input)

SpecWindow == Init /\ [][NextWindow]_vars

(* no episode of the sequence has outcome success *)
NoSuccess(es) == \A i \in 1..Len(es) : es[i].outcome # "success"

(* C30: recordExperience never creates or refreshes a pattern from a       *)
(* window of same-type episodes that contains no success outcome, only     *)
(* failure and partial, however many such episodes are recorded            *)
C30_NoSuccessNoPattern ==
  [][(RecordStep /\ NoSuccess(WindowAfter)) =>
       /\ patterns' = patterns
       /\ ret'.patterns_triggered = <<>>]_vars

(* three episodes without a success, a partial among them, fill the window *)
(* while a pattern detected before the window moved is stored              *)
C30_Witness ==
  LET window == getEpisodesByType(episodes, <<"build">>,
                                  now - recencyWindowDays, 500)
  IN  /\ ret.op = "recordExperience"
      /\ Len(window) >= 3
      /\ NoSuccess(window)
      /\ \E i \in 1..Len(window) : window[i].outcome = "partial"
      /\ episodes[Len(episodes)].id = ret.episode_id
      /\ episodes[Len(episodes)].timestamp = now
      /\ patterns # <<>>
      /\ patterns[1].last_seen < now

====
